---- MODULE Spec2Model ----
(***************************************************************************)
(* Harvest-aware commodity-selling simulator: the daily backtest loop, the *)
(* ten decision policies (4 rule-based, 5 forecast-aware, 1 rolling-       *)
(* horizon LP) and the indicator library, as documented with code in       *)
(* docs/trading-agent/strategies.md, docs/trading-agent/introduction.md    *)
(* and the trading-agent architecture page.                                *)
(*                                                                         *)
(* Numbers.  The program works in floating point; the model works in       *)
(* exact integers:                                                          *)
(*   - inventory and sale amounts are counted in 1/UnitsPerTon ton;         *)
(*   - prices are in cents/lb (integers); $/ton = cents/lb * 20;            *)
(*   - sell fractions ("batch sizes") are per mille (0.25 -> 250);          *)
(*   - comparisons of ratios (CV, RSI, ADX, net benefit) are done by       *)
(*     cross-multiplication, so a value exactly at a cutoff is exact.      *)
(*   - the cost rates 0.005 %/day and 0.01 % are 1 and 2 parts in          *)
(*     CostScale; net benefits are fractions in tenths of a percent, and   *)
(*     so are their thresholds (2.0 -> 20, 0.5 -> 5, -1.0 -> -10);         *)
(*     CV cutoffs and returns are in percent (0.05 -> 5);                  *)
(*   - the MPC rates 0.3 %/day, 2.0 % and the decay 0.95 are 3, 20 and     *)
(*     950 parts in MpcScale, so LP objective values and shadow prices     *)
(*     are MpcScale times the program's; the smoothing weight 0.3 is 3     *)
(*     parts in SmoothingScale.                                            *)
(* Time.  The day-valued parameters of the program (max_holding_days 365,  *)
(* cooldown_days 7, max_days_without_sale 60, frequency 30, periods 14/30, *)
(* horizon 14) are shortened; they are the bounds of the model.            *)
(***************************************************************************)
EXTENDS Integers, Sequences, FiniteSets

(***************************************************************************)
(* Bounds of the model (shortened time scale, run length, ensemble size).  *)
(***************************************************************************)
MaxDay == 8
max_holding_days == 7
GradualWindow == 2
harvest_days == 2
cooldown_days == 2
max_days_without_sale == 4
frequency_days == 3
sale_frequency_days == 2
period == 2
ma_period == 2
horizon_days == 2
baseline_frequency == 4
LPGrain == 2
YearLen == 6
MaxWindowLen == 3
MaxExampleDay == 24
SolverSlack == 1
TwoRunDays == 4
MaxNetBenefit == 25
NetBenefitGrain == 4
Years == 2
CostDays == 6
MaxBatchDay == 366

(***************************************************************************)
(* Units and program constants.                                            *)
(***************************************************************************)
UnitsPerTon == 12
harvest_volume == 50
harvest_start == 0
min_batch_size == 5
threshold_pct == 5
rsi_overbought == 70
rsi_moderate == 65
rsi_min == 45
adx_strong == 25
batch_baseline == 250
batch_overbought_strong == 350
batch_overbought == 300
batch_strong_trend == 200
batch_strong_momentum == 200
equal_batch_size == 250
gradual_liquidation_pm == 50
CostScale == 20000
storage_cost_pct_per_day == 1
transaction_cost_pct == 2
high_confidence_cv == 5
medium_confidence_cv == 15
strong_positive_threshold == 20
moderate_threshold == 5
strong_negative_threshold == 10
batch_pred_hold == 0
batch_pred_aggressive == 400
batch_pred_cautious == 150
min_net_benefit_pct == 5
negative_threshold_pct == 3
ev_medium_confidence_cv == 10
strong_trend_adx == 25
batch_positive_confident == 0
batch_positive_uncertain == 100
batch_marginal == 150
batch_negative_mild == 250
batch_negative_strong == 350
baseline_batch == 150
consensus_threshold == 70
very_strong_consensus == 85
moderate_consensus == 60
min_return == 3
batch_strong_consensus == 0
batch_moderate == 150
batch_weak == 250
batch_bearish == 350
fallback_batch == 200
max_uncertainty_low == 5
max_uncertainty_medium == 10
max_uncertainty_high == 20
batch_low_risk == 0
batch_medium_risk == 100
batch_high_risk == 250
batch_very_high_risk == 350
CentsPerLbToDollarsPerTon == 20
MpcScale == 1000
mpc_storage_cost_pct_per_day == 3
mpc_transaction_cost_pct == 20
terminal_value_decay == 950
SmoothingScale == 10
shadow_alpha == 3
MinSaleTenthsOfTon == 1
\* the coffee example of the Immediate Sale strategy, on the program's time scale
ExampleHarvestDays == 153
ExampleSaleFrequency == 7
ExampleMaxHoldingDays == 365
ExampleGradualFrom == 345
\* the example of the Equal Batch strategy, on the program's time scale
ExampleBatchFrequency == 30

\* Python's None, by the type of the value that is missing
NoValue == 0 - 1

NoPredictions == [present |-> FALSE, paths |-> << >>]

NoResult == [sell_solution |-> << >>, inventory_solution |-> << >>, shadow_price |-> 0]

VARIABLES
    strategy,               \* the policy under test (fixed for one run)
    has_forecasts,          \* whether the run has forecast data at all
    day,                    \* BacktestEngine: index of the next day to simulate
    inventory,              \* BacktestEngine: inventory on hand (units)
    total_harvested,        \* BacktestEngine: cumulative harvest inflow
    total_sold,             \* BacktestEngine: cumulative amount sold
    price_history,          \* the prices the policies read (most recent last)
    predictions,            \* the forecast ensemble handed to decide() today
    last_sale_day,          \* Strategy.last_sale_day
    days_since_last_sale,   \* ImmediateSaleStrategy.days_since_last_sale
    shadow_price_smoothing, \* RollingHorizonMPC.shadow_price_smoothing (NoValue or weight)
    smoothed_shadow_price,  \* RollingHorizonMPC.smoothed_shadow_price (NoValue or value)
    solver_ok,              \* whether linprog succeeded on the last simulated day
    lp_result,              \* the result of the day's _solve_window_lp (if any)
    lp_myopic,              \* an optimum of the same LP without the terminal value
    prev_plan,              \* the result of the previous day's solve (if any)
    decision,               \* the Decision of the last simulated day
    inv_before,             \* the inventory handed to decide() on that day
    sell_days,              \* the days of the last two SELLs that were not forced
    base_last_sale_day,     \* matched pair: the baseline policy's last_sale_day
    base_decision,          \* matched pair: the baseline policy's Decision
    harvest_windows,        \* BacktestEngine.harvest_windows (first and last day of each)
    built_schedule,         \* the result of _create_harvest_schedule (day of year -> units)
    runs,                   \* two backtests side by side: each run's own engine and strategy state
    series,                 \* the price and forecast of each day, read by both runs
    signal_net_benefit,     \* _analyze_prediction_signal: the net benefit being classified
    signal_direction,       \* _analyze_prediction_signal: the direction it was given
    analysis,               \* _analyze_historical: the (batch_size, reason) it returned
    indicators,             \* the values the indicator functions returned for the inputs
    total_storage,          \* BacktestEngine: accumulated storage cost
    total_transaction       \* BacktestEngine: accumulated transaction cost

vars == << strategy, has_forecasts, day, inventory, total_harvested, total_sold, price_history,
           predictions, last_sale_day, days_since_last_sale, shadow_price_smoothing,
           smoothed_shadow_price, solver_ok, lp_result, lp_myopic, prev_plan,
           decision, inv_before, sell_days, base_last_sale_day, base_decision,
           harvest_windows, built_schedule, runs, series, signal_net_benefit, signal_direction,
           analysis,
           indicators, total_storage, total_transaction >>

\* the state of a backtest run
run_vars == << strategy, has_forecasts, day, inventory, total_harvested, total_sold,
              price_history, predictions, last_sale_day, days_since_last_sale,
              shadow_price_smoothing, smoothed_shadow_price, solver_ok, lp_result,
              lp_myopic, prev_plan, decision, inv_before, sell_days,
              base_last_sale_day, base_decision >>

\* no (batch_size, reason) pair yet
NoAnalysis == [batch_size |-> 0, reason |-> "none"]

\* no indicator computed yet
NoIndicators == [computed |-> FALSE]

\* the state that only some of the specifications below use, and its value
\* in the others
other_vars == << harvest_windows, built_schedule, runs, series, signal_net_benefit, signal_direction,
           analysis,
           indicators, total_storage, total_transaction >>

OtherUnused ==
    /\ harvest_windows = << >>
    /\ built_schedule = << >>
    /\ runs = << >>
    /\ series = << >>
    /\ signal_net_benefit = [num |-> 0, den |-> 1]
    /\ signal_direction = "NONE"
    /\ analysis = NoAnalysis
    /\ indicators = NoIndicators
    /\ total_storage = 0
    /\ total_transaction = 0

(***************************************************************************)
(* Arithmetic helpers.                                                     *)
(***************************************************************************)
RECURSIVE SumSeq(_)
SumSeq(s) == IF s = << >> THEN 0 ELSE Head(s) + SumSeq(Tail(s))

Abs(x) == IF x < 0 THEN -x ELSE x

Min(a, b) == IF a < b THEN a ELSE b

Max(a, b) == IF a > b THEN a ELSE b

\* the last n elements of s (all of s when it is shorter)
LastN(s, n) == IF Len(s) <= n THEN s ELSE SubSeq(s, Len(s) - n + 1, Len(s))

\* np.diff
Diff(s) == [i \in 1..(Len(s) - 1) |-> s[i + 1] - s[i]]

\* the elements of a sequence of integers in ascending order
RECURSIVE SortAsc(_)
SortAsc(s) ==
    IF s = << >> THEN << >>
    ELSE LET i == CHOOSE k \in 1..Len(s) : \A j \in 1..Len(s) : s[k] <= s[j]
             rest == [j \in 1..(Len(s) - 1) |-> IF j < i THEN s[j] ELSE s[j + 1]]
         IN  << s[i] >> \o SortAsc(rest)

\* twice np.median (an integer also when the sample size is even)
Median2(s) ==
    LET o == SortAsc(s)
        n == Len(s)
    IN  IF n % 2 = 1 THEN 2 * o[(n + 1) \div 2] ELSE o[n \div 2] + o[n \div 2 + 1]

\* n^2 times the population variance (np.std squared)
VarN2(s) == Len(s) * SumSeq([i \in 1..Len(s) |-> s[i] * s[i]]) - SumSeq(s) * SumSeq(s)

(***************************************************************************)
(* Decisions.                                                              *)
(***************************************************************************)
HOLD(reason) == [action |-> "HOLD", amount |-> 0, reason |-> reason]

SELL(amount, reason) == [action |-> "SELL", amount |-> amount, reason |-> reason]

NoDecision == [action |-> "NONE", amount |-> 0, reason |-> "none"]

\* inventory * batch_size, batch_size per mille
Fraction(inv, batch_size) == (inv * batch_size) \div 1000

(***************************************************************************)
(* Indicator library (indicators.py).                                      *)
(***************************************************************************)
\* sum of the positive deltas / of the magnitudes of the negative deltas
Gains(deltas) == SumSeq([i \in 1..Len(deltas) |-> IF deltas[i] > 0 THEN deltas[i] ELSE 0])

Losses(deltas) == SumSeq([i \in 1..Len(deltas) |-> IF deltas[i] < 0 THEN -deltas[i] ELSE 0])

\* calculate_rsi: the RSI as a fraction num/den (den > 0)
calculate_rsi(prices) ==
    IF Len(prices) < period + 1 THEN [num |-> 50, den |-> 1]
    ELSE LET deltas == Diff(LastN(prices, period + 1))
             g == Gains(deltas)
             l == Losses(deltas)
         IN  IF l = 0 THEN [num |-> 100, den |-> 1]
             \* rs = g/l; rsi = 100 - 100/(1 + rs) = 100*g/(g + l)
             ELSE [num |-> 100 * g, den |-> g + l]

\* calculate_adx with no high/low columns (high = low = close = price):
\* tr = |delta|, +DM = positive delta, -DM = negative delta's magnitude;
\* the ADX as a fraction num/den (den > 0)
calculate_adx_period(prices, p) ==
    IF Len(prices) < p + 1 THEN [num |-> 20, den |-> 1]
    ELSE LET deltas == Diff(LastN(prices, p + 1))
             g == Gains(deltas)
             l == Losses(deltas)
         IN  \* atr = (g + l)/period; atr = 0 gives plus_di = minus_di = 0, adx = 0
             IF g + l = 0 THEN [num |-> 0, den |-> 1]
             \* dx = 100*|plus_di - minus_di|/(plus_di + minus_di) = 100*|g - l|/(g + l)
             ELSE [num |-> 100 * Abs(g - l), den |-> g + l]

\* calculate_adx with the default period
calculate_adx(prices) == calculate_adx_period(prices, period)

\* fraction q > k, q < k, q >= k, q <= k
FracGT(q, k) == q.num > k * q.den
FracLT(q, k) == q.num < k * q.den
FracGE(q, k) == q.num >= k * q.den
FracLE(q, k) == q.num <= k * q.den

(***************************************************************************)
(* Harvest schedule (backtest_engine.py).                                  *)
(***************************************************************************)
\* the days of the harvest window
HarvestWindow == harvest_start..(harvest_start + harvest_days - 1)

\* _create_harvest_schedule: day -> increment (units); 0 outside the window
daily_increment == (harvest_volume * UnitsPerTon) \div harvest_days

harvest_schedule(d) == IF d \in HarvestWindow THEN daily_increment ELSE 0

\* the "traditional approach" the design rejects: the whole harvest on hand
\* from the first harvest day
accumulate_from_full(inv, d) ==
    IF d = harvest_start THEN harvest_volume * UnitsPerTon ELSE inv

\* inventory starts at zero and grows by the day's increment
accumulate(inv, d) == inv + harvest_schedule(d)

(***************************************************************************)
(* Forced liquidation.                                                     *)
(***************************************************************************)
\* the engine's check with the hard deadline one day late (> for >=)
Engine_force_liquidation_check_late(d, inv) ==
    LET days_since_harvest == d - harvest_start
    IN  IF days_since_harvest > max_holding_days
            THEN SELL(inv, "force_liquidation_deadline")
        ELSE IF days_since_harvest >= max_holding_days - GradualWindow
            THEN SELL(Fraction(inv, gradual_liquidation_pm), "force_liquidation_gradual")
        ELSE NoDecision

\* the engine's check with the gradual tier taken from the harvest volume
\* instead of the inventory on hand
Engine_force_liquidation_check_of_harvest(d, inv) ==
    LET days_since_harvest == d - harvest_start
    IN  IF days_since_harvest >= max_holding_days
            THEN SELL(inv, "force_liquidation_deadline")
        ELSE IF days_since_harvest >= max_holding_days - GradualWindow
            THEN SELL(Fraction(harvest_volume * UnitsPerTon, gradual_liquidation_pm),
                      "force_liquidation_gradual")
        ELSE NoDecision

\* BacktestEngine._force_liquidation_check for a deadline and a first day of
\* gradual liquidation (365 and 345 in the program)
Engine_force_liquidation_check_at(deadline, gradual_from, d, inv) ==
    LET days_since_harvest == d - harvest_start
    IN  IF days_since_harvest >= deadline
            THEN SELL(inv, "force_liquidation_deadline")
        ELSE IF days_since_harvest >= gradual_from
            THEN SELL(Fraction(inv, gradual_liquidation_pm), "force_liquidation_gradual")
        ELSE NoDecision

\* BacktestEngine._force_liquidation_check: two tiers, measured from the
\* harvest start, on the model's time scale
Engine_force_liquidation_check(d, inv) ==
    Engine_force_liquidation_check_at(max_holding_days, max_holding_days - GradualWindow,
                                      d, inv)

\* Strategy._force_liquidation_check for an instance's max_holding_days
_force_liquidation_check_at(holding_days, d, inv) ==
    IF d >= holding_days THEN SELL(inv, "force_liquidation_max_days") ELSE NoDecision

\* Strategy._force_liquidation_check: sell all at max_holding_days
_force_liquidation_check(d, inv) == _force_liquidation_check_at(max_holding_days, d, inv)

IsForced(dec) ==
    dec.reason \in {"force_liquidation_deadline", "force_liquidation_gradual",
                    "force_liquidation_max_days"}

(***************************************************************************)
(* Policy state and outcomes.  decide() returns the set of outcomes the    *)
(* call can have: the Decision and the policy's state after the call.      *)
(***************************************************************************)
Out(dec, st) == [dec |-> dec, st |-> st, lp |-> NoResult]

\* the cooldown gate taken one day short (a plausible slip)
in_cooldown_one_day_short(d, st) == d - st.last_sale_day < cooldown_days - 1

\* the cooldown gate: days_since_sale < cooldown_days
in_cooldown(d, st) == d - st.last_sale_day < cooldown_days

\* Strategy._execute_trade: sell batch_size of the inventory, note the day
_execute_trade(d, inv, batch_size, reason, st) ==
    Out(SELL(Fraction(inv, batch_size), reason), [st EXCEPT !.last_sale_day = d])

(***************************************************************************)
(* Moving-average signals on the price history (today's price is last).    *)
(***************************************************************************)
\* the threshold of a short history taken below the current price
signal_triggered_below_current_price(current_price, hist) ==
    IF Len(hist) >= ma_period
    THEN current_price * ma_period * 100 > SumSeq(LastN(hist, ma_period)) * (100 + threshold_pct)
    ELSE current_price * 100 > current_price * (100 - threshold_pct)

\* current_price > ma * (1 + threshold_pct), ma the mean of the last ma_period
\* prices; with fewer prices the threshold is current_price * (1 + threshold_pct)
signal_triggered(current_price, hist) ==
    IF Len(hist) >= ma_period
    THEN current_price * ma_period * 100 > SumSeq(LastN(hist, ma_period)) * (100 + threshold_pct)
    ELSE current_price * 100 > current_price * (100 + threshold_pct)

\* the two crossovers of MovingAverageStrategy; hist holds ma_period + 1 prices
upward_cross(current_price, hist) ==
    LET recent_prices == LastN(hist, ma_period + 1)
        sum_current == SumSeq(LastN(recent_prices, ma_period))
        sum_prev == SumSeq(SubSeq(recent_prices, 1, ma_period))
        prev_price == recent_prices[Len(recent_prices) - 1]
    IN  prev_price * ma_period <= sum_prev /\ current_price * ma_period > sum_current

downward_cross(current_price, hist) ==
    LET recent_prices == LastN(hist, ma_period + 1)
        sum_current == SumSeq(LastN(recent_prices, ma_period))
        sum_prev == SumSeq(SubSeq(recent_prices, 1, ma_period))
        prev_price == recent_prices[Len(recent_prices) - 1]
    IN  prev_price * ma_period >= sum_prev /\ current_price * ma_period < sum_current

(***************************************************************************)
(* Rule-based policies (baseline.py).                                      *)
(***************************************************************************)
\* the decide below without the inventory test (a plausible slip): it sells
\* whenever the sale day has come
ImmediateSale_decide_at_any_size(min_batch, frequency, holding_days, d, inv, st) ==
    IF inv <= 0 THEN {Out(HOLD("no_inventory"), st)}
    ELSE IF _force_liquidation_check_at(holding_days, d, inv) # NoDecision
        THEN {Out(_force_liquidation_check_at(holding_days, d, inv), st)}
    ELSE IF st.days_since_last_sale >= frequency
        THEN {Out(SELL(inv, "immediate_weekly_sale"),
                  [st EXCEPT !.days_since_last_sale = 0])}
    ELSE {Out(HOLD("waiting_for_sale_day"), [st EXCEPT !.days_since_last_sale = @ + 1])}

\* ImmediateSaleStrategy.decide of an instance with the given min_batch_size
\* (units), sale_frequency_days and max_holding_days
ImmediateSale_decide_at(min_batch, frequency, holding_days, d, inv, st) ==
    IF inv <= 0 THEN {Out(HOLD("no_inventory"), st)}
    ELSE IF _force_liquidation_check_at(holding_days, d, inv) # NoDecision
        THEN {Out(_force_liquidation_check_at(holding_days, d, inv), st)}
    ELSE LET ready_to_sell == st.days_since_last_sale >= frequency
             enough_inventory == inv >= min_batch
         IN  IF ready_to_sell /\ enough_inventory
             THEN {Out(SELL(inv, "immediate_weekly_sale"),
                       [st EXCEPT !.days_since_last_sale = 0])}
             ELSE {Out(HOLD(IF enough_inventory THEN "waiting_for_sale_day"
                                                ELSE "accumulating"),
                       [st EXCEPT !.days_since_last_sale = @ + 1])}

\* ImmediateSaleStrategy.decide, on the model's time scale
ImmediateSale_decide(d, inv, current_price, hist, st) ==
    ImmediateSale_decide_at(min_batch_size * UnitsPerTon, sale_frequency_days,
                            max_holding_days, d, inv, st)

\* the decide below without the wait (a plausible slip): a batch every day
EqualBatch_decide_at_every_day(batch, frequency, holding_days, d, inv, st) ==
    IF inv <= 0 THEN {Out(HOLD("no_inventory"), st)}
    ELSE IF _force_liquidation_check_at(holding_days, d, inv) # NoDecision
        THEN {Out(_force_liquidation_check_at(holding_days, d, inv), st)}
    ELSE {Out(SELL(Fraction(inv, batch), "scheduled_batch"),
              [st EXCEPT !.last_sale_day = d])}

\* EqualBatchStrategy.decide of an instance with the given batch_size (per
\* mille), frequency and max_holding_days
EqualBatch_decide_at(batch, frequency, holding_days, d, inv, st) ==
    IF inv <= 0 THEN {Out(HOLD("no_inventory"), st)}
    ELSE IF _force_liquidation_check_at(holding_days, d, inv) # NoDecision
        THEN {Out(_force_liquidation_check_at(holding_days, d, inv), st)}
    ELSE IF d - st.last_sale_day >= frequency
        THEN {Out(SELL(Fraction(inv, batch), "scheduled_batch"),
                  [st EXCEPT !.last_sale_day = d])}
    ELSE {Out(HOLD("waiting_for_schedule"), st)}

\* EqualBatchStrategy.decide
EqualBatch_decide(d, inv, current_price, hist, st) ==
    IF inv <= 0 THEN {Out(HOLD("no_inventory"), st)}
    ELSE IF _force_liquidation_check(d, inv) # NoDecision
        THEN {Out(_force_liquidation_check(d, inv), st)}
    ELSE IF d - st.last_sale_day >= frequency_days
        THEN {Out(SELL(Fraction(inv, equal_batch_size), "scheduled_batch"),
                  [st EXCEPT !.last_sale_day = d])}
    ELSE {Out(HOLD("waiting_for_schedule"), st)}

\* the indicator analysis as a table of the two tests alone (a plausible
\* slip: the third branch without its rsi_moderate test)
PriceThreshold_analyze_historical_two_tests(hist) ==
    LET rsi == calculate_rsi(hist)
        adx == calculate_adx(hist)
    IN  IF FracGT(rsi, rsi_overbought) /\ FracGT(adx, adx_strong)
            THEN [batch_size |-> batch_overbought_strong, reason |-> "overbought_strong_trend"]
        ELSE IF FracGT(rsi, rsi_overbought)
            THEN [batch_size |-> batch_overbought, reason |-> "overbought"]
        ELSE IF FracGT(adx, adx_strong)
            THEN [batch_size |-> batch_strong_trend, reason |-> "strong_trend"]
        ELSE [batch_size |-> batch_baseline, reason |-> "baseline"]

\* PriceThresholdStrategy._analyze_historical: batch size from RSI and ADX
PriceThreshold_analyze_historical(hist) ==
    LET rsi == calculate_rsi(hist)
        adx == calculate_adx(hist)
    IN  IF FracGT(rsi, rsi_overbought) /\ FracGT(adx, adx_strong)
            THEN [batch_size |-> batch_overbought_strong, reason |-> "overbought_strong_trend"]
        ELSE IF FracGT(rsi, rsi_overbought)
            THEN [batch_size |-> batch_overbought, reason |-> "overbought"]
        ELSE IF FracGT(adx, adx_strong) /\ FracLT(rsi, rsi_moderate)
            THEN [batch_size |-> batch_strong_trend, reason |-> "strong_trend"]
        ELSE [batch_size |-> batch_baseline, reason |-> "baseline"]

\* decide without the fallback sale (a plausible slip: below the threshold
\* the policy always waits)
PriceThreshold_decide_no_fallback(d, inv, current_price, hist, st) ==
    IF inv <= 0 THEN {Out(HOLD("no_inventory"), st)}
    ELSE IF _force_liquidation_check(d, inv) # NoDecision
        THEN {Out(_force_liquidation_check(d, inv), st)}
    ELSE IF ~signal_triggered(current_price, hist) THEN {Out(HOLD("below_threshold"), st)}
    ELSE IF in_cooldown(d, st) THEN {Out(HOLD("cooldown"), st)}
    ELSE LET a == PriceThreshold_analyze_historical(hist)
         IN  {_execute_trade(d, inv, a.batch_size, a.reason, st)}

\* PriceThresholdStrategy.decide
PriceThreshold_decide(d, inv, current_price, hist, st) ==
    IF inv <= 0 THEN {Out(HOLD("no_inventory"), st)}
    ELSE IF _force_liquidation_check(d, inv) # NoDecision
        THEN {Out(_force_liquidation_check(d, inv), st)}
    ELSE LET days_since_sale == d - st.last_sale_day
             can_trade == ~in_cooldown(d, st)
         IN  IF ~signal_triggered(current_price, hist)
                 THEN IF days_since_sale >= max_days_without_sale
                      THEN {_execute_trade(d, inv, batch_baseline, "fallback", st)}
                      ELSE {Out(HOLD("below_threshold"), st)}
             ELSE IF ~can_trade THEN {Out(HOLD("cooldown"), st)}
             ELSE LET a == PriceThreshold_analyze_historical(hist)
                  IN  {_execute_trade(d, inv, a.batch_size, a.reason, st)}

\* MovingAverageStrategy._analyze_historical
MovingAverage_analyze_historical(hist) ==
    LET rsi == calculate_rsi(hist)
        adx == calculate_adx(hist)
    IN  IF FracGT(adx, adx_strong) /\ FracGE(rsi, rsi_min) /\ FracLE(rsi, rsi_overbought)
            THEN [batch_size |-> batch_strong_momentum, reason |-> "strong_momentum"]
        ELSE IF FracGT(rsi, rsi_overbought) /\ FracGT(adx, adx_strong)
            THEN [batch_size |-> batch_overbought_strong, reason |-> "overbought_strong"]
        ELSE IF FracGT(rsi, rsi_overbought)
            THEN [batch_size |-> batch_overbought, reason |-> "overbought"]
        ELSE [batch_size |-> batch_baseline, reason |-> "baseline"]

\* decide with the crossovers looked at before the fallback (a plausible
\* slip: an upward crossover holds whatever the days since the last sale)
MovingAverage_decide_crossover_first(d, inv, current_price, hist, st) ==
    IF inv <= 0 THEN {Out(HOLD("no_inventory"), st)}
    ELSE IF _force_liquidation_check(d, inv) # NoDecision
        THEN {Out(_force_liquidation_check(d, inv), st)}
    ELSE LET days_since_sale == d - st.last_sale_day
             can_trade == ~in_cooldown(d, st)
         IN  IF Len(hist) >= ma_period + 1 /\ upward_cross(current_price, hist)
                 THEN {Out(HOLD("upward_crossover_bullish"), st)}
             ELSE IF Len(hist) >= ma_period + 1 /\ downward_cross(current_price, hist)
                          /\ can_trade
                 THEN LET a == MovingAverage_analyze_historical(hist)
                      IN  {_execute_trade(d, inv, a.batch_size, a.reason, st)}
             ELSE IF days_since_sale >= max_days_without_sale
                 THEN {_execute_trade(d, inv, batch_baseline, "fallback", st)}
             ELSE IF Len(hist) < ma_period + 1 THEN {Out(HOLD("insufficient_history"), st)}
             ELSE IF downward_cross(current_price, hist) THEN {Out(HOLD("cooldown"), st)}
             ELSE {Out(HOLD("no_crossover"), st)}

\* MovingAverageStrategy.decide
MovingAverage_decide(d, inv, current_price, hist, st) ==
    IF inv <= 0 THEN {Out(HOLD("no_inventory"), st)}
    ELSE IF _force_liquidation_check(d, inv) # NoDecision
        THEN {Out(_force_liquidation_check(d, inv), st)}
    ELSE LET days_since_sale == d - st.last_sale_day
             can_trade == ~in_cooldown(d, st)
         IN  IF days_since_sale >= max_days_without_sale
                 THEN {_execute_trade(d, inv, batch_baseline, "fallback", st)}
             ELSE IF Len(hist) < ma_period + 1 THEN {Out(HOLD("insufficient_history"), st)}
             ELSE IF upward_cross(current_price, hist)
                 THEN {Out(HOLD("upward_crossover_bullish"), st)}
             ELSE IF downward_cross(current_price, hist)
                 THEN IF ~can_trade THEN {Out(HOLD("cooldown"), st)}
                      ELSE LET a == MovingAverage_analyze_historical(hist)
                           IN  {_execute_trade(d, inv, a.batch_size, a.reason, st)}
             ELSE {Out(HOLD("no_crossover"), st)}

(***************************************************************************)
(* Forecast ensembles: a sequence of paths, each a sequence of prices, one *)
(* per horizon day; NoPredictions is "predictions is None".                *)
(***************************************************************************)
NPaths(pred) == Len(pred.paths)

NHorizons(pred) == IF pred.paths = << >> THEN 0 ELSE Len(pred.paths[1])

\* predictions.size
Size(pred) == NPaths(pred) * NHorizons(pred)

\* predictions[:, h]  (h is 1-based here)
Column(pred, h) == [k \in 1..NPaths(pred) |-> pred.paths[k][h]]

\* a fraction of naturals (den > 0) in lowest terms
RECURSIVE GCD(_, _)
GCD(a, b) == IF b = 0 THEN a ELSE GCD(b, a % b)

Reduced(q) == [num |-> q.num \div GCD(q.num, q.den), den |-> q.den \div GCD(q.num, q.den)]

\* calculate_prediction_confidence: the square of the CV (std_dev / median)
\* as a fraction; 1.0 with no ensemble or a median that is not positive
calculate_prediction_confidence(pred, horizon_day) ==
    IF pred = NoPredictions \/ Size(pred) = 0 THEN [num |-> 1, den |-> 1]
    ELSE LET h == IF horizon_day >= NHorizons(pred) THEN NHorizons(pred) ELSE horizon_day + 1
             day_predictions == Column(pred, h)
             n == Len(day_predictions)
         IN  IF Median2(day_predictions) > 0
             THEN Reduced([num |-> 4 * VarN2(day_predictions),
                           den |-> (n * Median2(day_predictions))
                                       * (n * Median2(day_predictions))])
             ELSE [num |-> 1, den |-> 1]

\* the cutoff taken inclusively (a plausible slip: <= for <)
CVLessOrEqual(cvsq, c) == cvsq.num * 10000 <= c * c * cvsq.den

\* cv < c/100, cv the root of the fraction cvsq
CVLess(cvsq, c) == cvsq.num * 10000 < c * c * cvsq.den

\* twice the expected value of selling on horizon day h (1-based), in CostScale
EvOfDay2(current_price, pred, h) ==
    LET future_price2 == Median2(Column(pred, h))
        days_to_wait == h
    IN  future_price2 * (CostScale - transaction_cost_pct)
            - 2 * current_price * storage_cost_pct_per_day * days_to_wait

\* the horizon days whose expected value is the largest
OptimalDays(current_price, pred) ==
    {h \in 1..NHorizons(pred) :
        \A g \in 1..NHorizons(pred) :
            EvOfDay2(current_price, pred, h) >= EvOfDay2(current_price, pred, g)}

\* the net benefit with the storage cost of waiting left out (a plausible slip)
_calculate_net_benefit_pct_no_storage(current_price, pred) ==
    LET best == CHOOSE h \in 1..NHorizons(pred) :
                    \A g \in 1..NHorizons(pred) :
                        Median2(Column(pred, h)) >= Median2(Column(pred, g))
        ev_today2 == 2 * current_price * (CostScale - transaction_cost_pct)
    IN  [num |-> Median2(Column(pred, best)) * (CostScale - transaction_cost_pct) - ev_today2,
         den |-> current_price * ((2 * CostScale) \div 1000)]

\* _calculate_net_benefit_pct / _find_optimal_sale_day_pct: the net benefit of
\* the best future day over selling today, a fraction in tenths of a percent
_calculate_net_benefit_pct(current_price, pred) ==
    LET optimal_day == CHOOSE h \in OptimalDays(current_price, pred) :
                           \A g \in OptimalDays(current_price, pred) : h <= g
        ev_today2 == 2 * current_price * (CostScale - transaction_cost_pct)
    IN  [num |-> EvOfDay2(current_price, pred, optimal_day) - ev_today2,
         den |-> current_price * ((2 * CostScale) \div 1000)]

\* the direction tests with the thresholds included (a plausible slip:
\* >= and <= for > and <)
classify_direction_inclusive(net_benefit) ==
    IF FracGE(net_benefit, strong_positive_threshold) THEN "STRONG_UPWARD"
    ELSE IF FracGE(net_benefit, moderate_threshold) THEN "MODERATE_UPWARD"
    ELSE IF FracLE(net_benefit, -strong_negative_threshold) THEN "STRONG_DOWNWARD"
    ELSE IF FracLE(net_benefit, -moderate_threshold) THEN "MODERATE_DOWNWARD"
    ELSE "NEUTRAL"

\* _analyze_prediction_signal: direction and magnitude of a net benefit (a
\* fraction in tenths of a percent)
classify_direction(net_benefit) ==
    IF FracGT(net_benefit, strong_positive_threshold) THEN "STRONG_UPWARD"
    ELSE IF FracGT(net_benefit, moderate_threshold) THEN "MODERATE_UPWARD"
    ELSE IF FracLT(net_benefit, -strong_negative_threshold) THEN "STRONG_DOWNWARD"
    ELSE IF FracLT(net_benefit, -moderate_threshold) THEN "MODERATE_DOWNWARD"
    ELSE "NEUTRAL"

\* the CV computed inside _analyze_prediction_signal: std_dev / median of the
\* last horizon day, with no test of the median.  The value is kept as the
\* signed square of the quotient: negative for a negative median, and with
\* den = 0 for a median of 0 (the quotient is then inf or nan, which is
\* below no cutoff)
signal_cv(pred) ==
    LET day_14_predictions == Column(pred, horizon_days)
        n == Len(day_14_predictions)
    IN  IF Median2(day_14_predictions) > 0
        THEN Reduced([num |-> 4 * VarN2(day_14_predictions),
                      den |-> (n * Median2(day_14_predictions))
                                  * (n * Median2(day_14_predictions))])
        ELSE IF Median2(day_14_predictions) = 0
        THEN [num |-> 4 * VarN2(day_14_predictions), den |-> 0]
        ELSE Reduced([num |-> 0 - 4 * VarN2(day_14_predictions),
                      den |-> (n * Median2(day_14_predictions))
                                  * (n * Median2(day_14_predictions))])

\* PriceThresholdPredictive._analyze_prediction_signal
_analyze_prediction_signal(current_price, hist, pred) ==
    LET net_benefit == _calculate_net_benefit_pct(current_price, pred)
        cv == signal_cv(pred)
    IN  [confidence |->
            IF CVLess(cv, high_confidence_cv) THEN "HIGH"
            ELSE IF CVLess(cv, medium_confidence_cv) THEN "MEDIUM"
            ELSE "LOW",
         direction |-> classify_direction(net_benefit),
         net_benefit_pct |-> net_benefit,
         cv |-> cv]

\* the override that still honours the baseline's fallback (a plausible slip:
\* the max_days_without_sale sale checked before the forecast)
_execute_prediction_override_after_fallback(d, inv, pred_signal, hist, st) ==
    LET direction == pred_signal.direction
    IN  IF d - st.last_sale_day >= max_days_without_sale
            THEN _execute_trade(d, inv, batch_baseline, "OVERRIDE_neutral", st)
        ELSE IF direction = "STRONG_UPWARD"
            THEN _execute_trade(d, inv, batch_pred_hold, "OVERRIDE_hold_strong_upward", st)
        ELSE IF direction = "MODERATE_UPWARD"
            THEN _execute_trade(d, inv, batch_pred_cautious, "OVERRIDE_small_hedge_mod_upward", st)
        ELSE IF direction = "STRONG_DOWNWARD"
            THEN _execute_trade(d, inv, batch_pred_aggressive, "OVERRIDE_aggressive_strong_downward", st)
        ELSE IF direction = "MODERATE_DOWNWARD"
            THEN _execute_trade(d, inv, batch_baseline, "OVERRIDE_baseline_mod_downward", st)
        ELSE _execute_trade(d, inv, batch_baseline, "OVERRIDE_neutral", st)

\* _execute_prediction_override: HIGH confidence, the forecast decides
_execute_prediction_override(d, inv, pred_signal, hist, st) ==
    LET direction == pred_signal.direction
    IN  IF direction = "STRONG_UPWARD"
            THEN _execute_trade(d, inv, batch_pred_hold, "OVERRIDE_hold_strong_upward", st)
        ELSE IF direction = "MODERATE_UPWARD"
            THEN _execute_trade(d, inv, batch_pred_cautious, "OVERRIDE_small_hedge_mod_upward", st)
        ELSE IF direction = "STRONG_DOWNWARD"
            THEN _execute_trade(d, inv, batch_pred_aggressive, "OVERRIDE_aggressive_strong_downward", st)
        ELSE IF direction = "MODERATE_DOWNWARD"
            THEN _execute_trade(d, inv, batch_baseline, "OVERRIDE_baseline_mod_downward", st)
        ELSE _execute_trade(d, inv, batch_baseline, "OVERRIDE_neutral", st)

\* _execute_blended_decision: MEDIUM confidence, baseline_action is what the
\* paired baseline would do ([triggered, batch_size, reason])
_execute_blended_decision(d, inv, baseline_action, pred_signal, st) ==
    LET direction == pred_signal.direction
    IN  IF baseline_action.triggered
        THEN IF direction \in {"STRONG_UPWARD", "MODERATE_UPWARD"}
             THEN _execute_trade(d, inv, baseline_action.batch_size \div 2,
                                 "BLEND_reduce_sell_pred_upward", st)
             ELSE _execute_trade(d, inv, baseline_action.batch_size,
                                 "BLEND_follow_baseline_" \o baseline_action.reason, st)
        ELSE IF direction \in {"STRONG_DOWNWARD", "MODERATE_DOWNWARD"}
             THEN _execute_trade(d, inv, batch_pred_cautious,
                                 "BLEND_cautious_sell_pred_downward", st)
             ELSE Out(HOLD("BLEND_hold_pred_agrees"), st)

\* _get_baseline_action of the threshold pair: the baseline's signal and batch
PriceThreshold_get_baseline_action(current_price, hist) ==
    LET a == PriceThreshold_analyze_historical(hist)
    IN  [triggered |-> signal_triggered(current_price, hist),
         batch_size |-> a.batch_size, reason |-> a.reason]

\* the baseline logic without the technical indicators (a plausible slip:
\* the baseline batch on every signal)
PriceThreshold_execute_baseline_logic_flat_batch(d, inv, current_price, hist, st) ==
    LET days_since_sale == d - st.last_sale_day
    IN  IF ~signal_triggered(current_price, hist)
        THEN IF days_since_sale >= max_days_without_sale
             THEN _execute_trade(d, inv, batch_baseline, "BASELINE_fallback", st)
             ELSE Out(HOLD("BASELINE_below_threshold"), st)
        ELSE _execute_trade(d, inv, batch_baseline, "BASELINE_baseline", st)

\* PriceThresholdPredictive._execute_baseline_logic
PriceThreshold_execute_baseline_logic(d, inv, current_price, hist, st) ==
    LET days_since_sale == d - st.last_sale_day
    IN  IF ~signal_triggered(current_price, hist)
        THEN IF days_since_sale >= max_days_without_sale
             THEN _execute_trade(d, inv, batch_baseline, "BASELINE_fallback", st)
             ELSE Out(HOLD("BASELINE_below_threshold"), st)
        ELSE LET a == PriceThreshold_analyze_historical(hist)
             IN  _execute_trade(d, inv, a.batch_size, "BASELINE_" \o a.reason, st)

\* PriceThresholdPredictive.decide
PriceThresholdPredictive_decide(d, inv, current_price, hist, pred, st) ==
    IF inv <= 0 THEN {Out(HOLD("no_inventory"), st)}
    ELSE IF _force_liquidation_check(d, inv) # NoDecision
        THEN {Out(_force_liquidation_check(d, inv), st)}
    ELSE IF in_cooldown(d, st) THEN {Out(HOLD("cooldown"), st)}
    ELSE LET usable == pred # NoPredictions /\ Size(pred) > 0
             pred_signal == _analyze_prediction_signal(current_price, hist, pred)
         IN  IF usable /\ pred_signal.confidence = "HIGH"
                 THEN {_execute_prediction_override(d, inv, pred_signal, hist, st)}
             ELSE IF usable /\ pred_signal.confidence = "MEDIUM"
                 THEN {_execute_blended_decision(d, inv,
                          PriceThreshold_get_baseline_action(current_price, hist),
                          pred_signal, st)}
             ELSE {PriceThreshold_execute_baseline_logic(d, inv, current_price, hist, st)}

\* _get_baseline_action of the crossover pair
MovingAverage_get_baseline_action(current_price, hist) ==
    LET a == MovingAverage_analyze_historical(hist)
    IN  [triggered |-> Len(hist) >= ma_period + 1 /\ downward_cross(current_price, hist),
         batch_size |-> a.batch_size, reason |-> a.reason]

\* MovingAveragePredictive._execute_baseline_logic: the crossover detection
MovingAverage_execute_baseline_logic(d, inv, current_price, hist, st) ==
    LET days_since_sale == d - st.last_sale_day
    IN  IF days_since_sale >= max_days_without_sale
            THEN _execute_trade(d, inv, batch_baseline, "BASELINE_fallback", st)
        ELSE IF Len(hist) < ma_period + 1 THEN Out(HOLD("BASELINE_insufficient_history"), st)
        ELSE IF upward_cross(current_price, hist)
            THEN Out(HOLD("BASELINE_upward_crossover"), st)
        ELSE IF downward_cross(current_price, hist)
            THEN LET a == MovingAverage_analyze_historical(hist)
                 IN  _execute_trade(d, inv, a.batch_size, "BASELINE_" \o a.reason, st)
        ELSE Out(HOLD("BASELINE_no_crossover"), st)

\* MovingAveragePredictive.decide
MovingAveragePredictive_decide(d, inv, current_price, hist, pred, st) ==
    IF inv <= 0 THEN {Out(HOLD("no_inventory"), st)}
    ELSE IF _force_liquidation_check(d, inv) # NoDecision
        THEN {Out(_force_liquidation_check(d, inv), st)}
    ELSE IF in_cooldown(d, st) THEN {Out(HOLD("cooldown"), st)}
    ELSE LET usable == pred # NoPredictions /\ Size(pred) > 0
             pred_signal == _analyze_prediction_signal(current_price, hist, pred)
         IN  IF usable /\ pred_signal.confidence = "HIGH"
                 THEN {_execute_prediction_override(d, inv, pred_signal, hist, st)}
             ELSE IF usable /\ pred_signal.confidence = "MEDIUM"
                 THEN {_execute_blended_decision(d, inv,
                          MovingAverage_get_baseline_action(current_price, hist),
                          pred_signal, st)}
             ELSE {MovingAverage_execute_baseline_logic(d, inv, current_price, hist, st)}

(***************************************************************************)
(* Stand-alone forecast policies.                                          *)
(***************************************************************************)
\* the table with the medium-confidence test of the matched pair (a plausible
\* slip: medium_confidence_cv 0.15 for the policy's own 0.10)
_analyze_expected_value_pct_pair_cutoff(current_price, hist, pred) ==
    LET net_benefit_pct == _calculate_net_benefit_pct(current_price, pred)
        cv == calculate_prediction_confidence(pred, horizon_days - 1)
        adx == calculate_adx(hist)
    IN  IF FracGT(net_benefit_pct, min_net_benefit_pct)
        THEN IF CVLess(cv, high_confidence_cv) /\ FracGT(adx, strong_trend_adx)
                 THEN [batch_size |-> batch_positive_confident, reason |-> "high_conf_hold"]
             ELSE IF CVLess(cv, medium_confidence_cv)
                 THEN [batch_size |-> batch_positive_uncertain, reason |-> "med_conf_small_hedge"]
             ELSE [batch_size |-> batch_marginal, reason |-> "low_conf_hedge"]
        ELSE IF FracGT(net_benefit_pct, 0)
            THEN [batch_size |-> batch_marginal, reason |-> "marginal_benefit"]
        ELSE IF FracGT(net_benefit_pct, -negative_threshold_pct)
            THEN [batch_size |-> batch_negative_mild, reason |-> "mild_negative"]
        ELSE [batch_size |-> batch_negative_strong, reason |-> "strong_negative"]

\* the table with the fractions of the marginal and the mild-negative tier
\* exchanged (a plausible slip)
_analyze_expected_value_pct_tiers_exchanged(current_price, hist, pred) ==
    LET net_benefit_pct == _calculate_net_benefit_pct(current_price, pred)
        cv == calculate_prediction_confidence(pred, horizon_days - 1)
        adx == calculate_adx(hist)
    IN  IF FracGT(net_benefit_pct, min_net_benefit_pct)
        THEN IF CVLess(cv, high_confidence_cv) /\ FracGT(adx, strong_trend_adx)
                 THEN [batch_size |-> batch_positive_confident, reason |-> "high_conf_hold"]
             ELSE IF CVLess(cv, ev_medium_confidence_cv)
                 THEN [batch_size |-> batch_positive_uncertain, reason |-> "med_conf_small_hedge"]
             ELSE [batch_size |-> batch_marginal, reason |-> "low_conf_hedge"]
        ELSE IF FracGT(net_benefit_pct, 0)
            THEN [batch_size |-> batch_negative_mild, reason |-> "marginal_benefit"]
        ELSE IF FracGT(net_benefit_pct, -negative_threshold_pct)
            THEN [batch_size |-> batch_marginal, reason |-> "mild_negative"]
        ELSE [batch_size |-> batch_negative_strong, reason |-> "strong_negative"]

\* ExpectedValueStrategy._analyze_expected_value_pct
_analyze_expected_value_pct(current_price, hist, pred) ==
    LET net_benefit_pct == _calculate_net_benefit_pct(current_price, pred)
        cv == calculate_prediction_confidence(pred, horizon_days - 1)
        adx == calculate_adx(hist)
    IN  IF FracGT(net_benefit_pct, min_net_benefit_pct)
        THEN IF CVLess(cv, high_confidence_cv) /\ FracGT(adx, strong_trend_adx)
                 THEN [batch_size |-> batch_positive_confident, reason |-> "high_conf_hold"]
             ELSE IF CVLess(cv, ev_medium_confidence_cv)
                 THEN [batch_size |-> batch_positive_uncertain, reason |-> "med_conf_small_hedge"]
             ELSE [batch_size |-> batch_marginal, reason |-> "low_conf_hedge"]
        ELSE IF FracGT(net_benefit_pct, 0)
            THEN [batch_size |-> batch_marginal, reason |-> "marginal_benefit"]
        ELSE IF FracGT(net_benefit_pct, -negative_threshold_pct)
            THEN [batch_size |-> batch_negative_mild, reason |-> "mild_negative"]
        ELSE [batch_size |-> batch_negative_strong, reason |-> "strong_negative"]

\* decide with the time-based sale not waiting for baseline_frequency (a
\* plausible slip: without an ensemble it sells as soon as the cooldown is over)
ExpectedValue_decide_no_wait(d, inv, current_price, hist, pred, st) ==
    IF inv <= 0 THEN {Out(HOLD("no_inventory"), st)}
    ELSE IF _force_liquidation_check(d, inv) # NoDecision
        THEN {Out(_force_liquidation_check(d, inv), st)}
    ELSE IF in_cooldown(d, st) THEN {Out(HOLD("cooldown"), st)}
    ELSE IF pred = NoPredictions
        THEN {_execute_trade(d, inv, baseline_batch, "no_predictions_fallback", st)}
    ELSE LET a == _analyze_expected_value_pct(current_price, hist, pred)
         IN  {_execute_trade(d, inv, a.batch_size, a.reason, st)}

\* ExpectedValueStrategy.decide
ExpectedValue_decide(d, inv, current_price, hist, pred, st) ==
    IF inv <= 0 THEN {Out(HOLD("no_inventory"), st)}
    ELSE IF _force_liquidation_check(d, inv) # NoDecision
        THEN {Out(_force_liquidation_check(d, inv), st)}
    ELSE IF in_cooldown(d, st) THEN {Out(HOLD("cooldown"), st)}
    ELSE IF pred = NoPredictions
        THEN IF d - st.last_sale_day >= baseline_frequency
             THEN {_execute_trade(d, inv, baseline_batch, "no_predictions_fallback", st)}
             ELSE {Out(HOLD("no_predictions_waiting"), st)}
    ELSE LET a == _analyze_expected_value_pct(current_price, hist, pred)
         IN  {_execute_trade(d, inv, a.batch_size, a.reason, st)}

\* the net benefit of waiting until the evaluation day, as a fraction in
\* tenths of a percent: 100 * (expected_return - storage - transaction)
EvalNetBenefit(current_price, pred) ==
    LET eval_day == Min(horizon_days, NHorizons(pred))
        median_future2 == Median2(Column(pred, eval_day))
        days_to_wait == eval_day
    IN  [num |-> (median_future2 - 2 * current_price) * CostScale
                 - 2 * current_price
                     * (storage_cost_pct_per_day * days_to_wait + transaction_cost_pct),
         den |-> current_price * ((2 * CostScale) \div 1000)]

\* expected_return_pct >= min_return
ReturnSufficient(current_price, pred) ==
    LET eval_day == Min(horizon_days, NHorizons(pred))
    IN  (Median2(Column(pred, eval_day)) - 2 * current_price) * 100
            >= min_return * 2 * current_price

\* bullish_count: the paths showing more than min_return at the evaluation day
bullish_count(current_price, pred) ==
    LET eval_day == Min(horizon_days, NHorizons(pred))
    IN  Cardinality({k \in 1..NPaths(pred) :
            (pred.paths[k][eval_day] - current_price) * 100 > min_return * current_price})

\* the consensus tiers with the thresholds excluded (a plausible slip: > for >=)
_analyze_consensus_pct_strict(current_price, hist, pred) ==
    LET n == NPaths(pred)
        bullish == bullish_count(current_price, pred)
        cv == calculate_prediction_confidence(pred, horizon_days - 1)
        net_benefit_pct == EvalNetBenefit(current_price, pred)
    IN  IF bullish * 100 > very_strong_consensus * n
               /\ FracGT(net_benefit_pct, min_net_benefit_pct)
            THEN [batch_size |-> batch_strong_consensus, reason |-> "very_strong_consensus_hold"]
        ELSE IF bullish * 100 > consensus_threshold * n
               /\ FracGT(net_benefit_pct, min_net_benefit_pct)
            THEN IF CVLess(cv, high_confidence_cv)
                 THEN [batch_size |-> batch_strong_consensus, reason |-> "strong_consensus_high_conf_hold"]
                 ELSE [batch_size |-> batch_moderate, reason |-> "strong_consensus_med_conf_gradual"]
        ELSE IF bullish * 100 > moderate_consensus * n
            THEN [batch_size |-> batch_moderate, reason |-> "moderate_consensus_gradual"]
        ELSE IF bullish * 100 < (100 - consensus_threshold) * n
            THEN [batch_size |-> batch_bearish, reason |-> "bearish_consensus_sell"]
        ELSE [batch_size |-> batch_weak, reason |-> "weak_consensus_sell"]

\* ConsensusStrategy._analyze_consensus_pct
_analyze_consensus_pct(current_price, hist, pred) ==
    LET n == NPaths(pred)
        bullish == bullish_count(current_price, pred)
        cv == calculate_prediction_confidence(pred, horizon_days - 1)
        net_benefit_pct == EvalNetBenefit(current_price, pred)
    IN  IF bullish * 100 >= very_strong_consensus * n
               /\ FracGT(net_benefit_pct, min_net_benefit_pct)
            THEN [batch_size |-> batch_strong_consensus, reason |-> "very_strong_consensus_hold"]
        ELSE IF bullish * 100 >= consensus_threshold * n
               /\ FracGT(net_benefit_pct, min_net_benefit_pct)
            THEN IF CVLess(cv, high_confidence_cv)
                 THEN [batch_size |-> batch_strong_consensus, reason |-> "strong_consensus_high_conf_hold"]
                 ELSE [batch_size |-> batch_moderate, reason |-> "strong_consensus_med_conf_gradual"]
        ELSE IF bullish * 100 >= moderate_consensus * n
            THEN [batch_size |-> batch_moderate, reason |-> "moderate_consensus_gradual"]
        ELSE IF bullish * 100 < (100 - consensus_threshold) * n
            THEN [batch_size |-> batch_bearish, reason |-> "bearish_consensus_sell"]
        ELSE [batch_size |-> batch_weak, reason |-> "weak_consensus_sell"]

\* ConsensusStrategy.decide
Consensus_decide(d, inv, current_price, hist, pred, st) ==
    IF inv <= 0 THEN {Out(HOLD("no_inventory"), st)}
    ELSE IF _force_liquidation_check(d, inv) # NoDecision
        THEN {Out(_force_liquidation_check(d, inv), st)}
    ELSE IF in_cooldown(d, st) THEN {Out(HOLD("cooldown"), st)}
    ELSE IF pred = NoPredictions
        THEN IF d - st.last_sale_day >= baseline_frequency
             THEN {_execute_trade(d, inv, fallback_batch, "no_predictions_fallback", st)}
             ELSE {Out(HOLD("no_predictions_waiting"), st)}
    ELSE LET a == _analyze_consensus_pct(current_price, hist, pred)
         IN  {_execute_trade(d, inv, a.batch_size, a.reason, st)}

\* RiskAdjustedStrategy._analyze_risk_adjusted_pct
_analyze_risk_adjusted_pct(current_price, hist, pred) ==
    LET cv == calculate_prediction_confidence(pred, horizon_days - 1)
        net_benefit_pct == EvalNetBenefit(current_price, pred)
        adx == calculate_adx_period(hist, Min(period, Len(hist) - 1))
    IN  IF ReturnSufficient(current_price, pred)
               /\ FracGT(net_benefit_pct, min_net_benefit_pct)
        THEN IF CVLess(cv, max_uncertainty_low) /\ FracGT(adx, strong_trend_adx)
                 THEN [batch_size |-> batch_low_risk, reason |-> "low_risk_hold"]
             ELSE IF CVLess(cv, max_uncertainty_medium)
                 THEN [batch_size |-> batch_medium_risk, reason |-> "medium_risk_small_hedge"]
             ELSE IF CVLess(cv, max_uncertainty_high)
                 THEN [batch_size |-> batch_high_risk, reason |-> "high_risk_hedge"]
             ELSE [batch_size |-> batch_very_high_risk, reason |-> "very_high_risk_sell"]
        ELSE IF FracLT(net_benefit_pct, 0)
            THEN [batch_size |-> batch_very_high_risk, reason |-> "negative_net_benefit_sell"]
        ELSE [batch_size |-> batch_high_risk, reason |-> "insufficient_return_sell"]

\* RiskAdjustedStrategy.decide
RiskAdjusted_decide(d, inv, current_price, hist, pred, st) ==
    IF inv <= 0 THEN {Out(HOLD("no_inventory"), st)}
    ELSE IF _force_liquidation_check(d, inv) # NoDecision
        THEN {Out(_force_liquidation_check(d, inv), st)}
    ELSE IF in_cooldown(d, st) THEN {Out(HOLD("cooldown"), st)}
    ELSE IF pred = NoPredictions
        THEN IF d - st.last_sale_day >= baseline_frequency
             THEN {_execute_trade(d, inv, fallback_batch, "no_predictions_fallback", st)}
             ELSE {Out(HOLD("no_predictions_waiting"), st)}
    ELSE LET a == _analyze_risk_adjusted_pct(current_price, hist, pred)
         IN  {_execute_trade(d, inv, a.batch_size, a.reason, st)}

(***************************************************************************)
(* Rolling-horizon MPC (rolling_horizon_mpc.py).                           *)
(***************************************************************************)
\* predictions[:, :window_len].mean(axis=0) * 20: mean price per horizon
\* day in $/ton (the ensembles of the model have integer means)
future_prices_per_ton(pred, window_len) ==
    [h \in 1..window_len |->
        (SumSeq(Column(pred, h)) \div NPaths(pred)) * CentsPerLbToDollarsPerTon]

\* the amounts the model lets the LP sell on one day
Portions(current_inventory) ==
    {(current_inventory * k) \div LPGrain : k \in 0..LPGrain}

\* inv[t] of the balance rows: sell[t] + inv[t] - inv[t-1] = harvest[t]
RECURSIVE InvAfter(_, _, _, _)
InvAfter(current_inventory, sells, future_harvest, t) ==
    IF t = 0 THEN current_inventory
    ELSE InvAfter(current_inventory, sells, future_harvest, t - 1)
             + future_harvest[t] - sells[t]

\* the schedules that satisfy the balance rows and the bounds (all >= 0)
Feasible(current_inventory, n_days, future_harvest) ==
    {sells \in [1..n_days -> Portions(current_inventory)] :
        \A t \in 1..n_days : InvAfter(current_inventory, sells, future_harvest, t) >= 0}

\* -c . x: revenue net of transaction cost, minus storage on the inventory
\* held at the end of each day, plus the terminal value of inv[n_days]
Objective(current_inventory, sells, future_prices, future_harvest, terminal_val) ==
    LET n_days == Len(future_prices)
    IN  SumSeq([t \in 1..n_days |->
                   sells[t] * future_prices[t] * (MpcScale - mpc_transaction_cost_pct)])
        - SumSeq([t \in 1..n_days |->
                   InvAfter(current_inventory, sells, future_harvest, t)
                       * future_prices[t] * mpc_storage_cost_pct_per_day])
        + InvAfter(current_inventory, sells, future_harvest, n_days) * terminal_val

\* a solver that returns any feasible schedule, optimal or not
Optima_any_feasible(current_inventory, future_prices, future_harvest, terminal_val) ==
    Feasible(current_inventory, Len(future_prices), future_harvest)

\* the optimal schedules: the solver returns one of them
Optima(current_inventory, future_prices, future_harvest, terminal_val) ==
    LET F == Feasible(current_inventory, Len(future_prices), future_harvest)
        values == {Objective(current_inventory, x, future_prices, future_harvest,
                             terminal_val) : x \in F}
        best == CHOOSE v \in values : \A w \in values : v >= w
    IN  {x \in F : Objective(current_inventory, x, future_prices, future_harvest,
                             terminal_val) = best}

\* -terminal_val_coeff: the smoothed shadow price when smoothing is on and a
\* value exists, else the last price times the decay
TerminalValue(future_prices, smoothing, smoothed) ==
    IF smoothing # NoValue /\ smoothed # NoValue THEN smoothed
    ELSE future_prices[Len(future_prices)] * terminal_value_decay

\* _solve_window_lp: NoResult when the solver does not succeed or raises
_solve_window_lp(current_inventory, future_prices, future_harvest, smoothing, smoothed, solver_succeeds) ==
    IF ~solver_succeeds THEN {NoResult}
    ELSE {[sell_solution |-> x,
           inventory_solution |->
               [t \in 1..Len(future_prices) |->
                   InvAfter(current_inventory, x, future_harvest, t)],
           shadow_price |-> future_prices[Len(future_prices)] * terminal_value_decay] :
          x \in Optima(current_inventory, future_prices, future_harvest,
                       TerminalValue(future_prices, smoothing, smoothed))}

\* the update without the smoothing: the newest shadow price replaces the
\* stored one
UpdateShadowPrice_overwrite(smoothing, smoothed, shadow_price) ==
    IF smoothing = NoValue THEN smoothed ELSE shadow_price

\* the exponential smoothing of the shadow price
UpdateShadowPrice(smoothing, smoothed, shadow_price) ==
    IF smoothing = NoValue THEN smoothed
    ELSE IF smoothed = NoValue THEN shadow_price
    ELSE (smoothing * shadow_price + (SmoothingScale - smoothing) * smoothed)
             \div SmoothingScale

\* the outcome when the plan of the previous solve is followed instead of
\* today's first entry (a plausible slip: the schedule queued)
MpcOutcome_follow_plan(inv, result, smoothing, st) ==
    IF result = NoResult THEN [dec |-> HOLD("lp_failed"), st |-> st, lp |-> NoResult]
    ELSE LET sell_today == IF lp_result # NoResult /\ Len(lp_result.sell_solution) >= 2
                           THEN lp_result.sell_solution[2]
                           ELSE result.sell_solution[1]
             st2 == [st EXCEPT !.smoothed_shadow_price =
                        UpdateShadowPrice(smoothing, @, result.shadow_price)]
         IN  IF sell_today * 10 < MinSaleTenthsOfTon * UnitsPerTon
             THEN [dec |-> HOLD("mpc_hold"), st |-> st2, lp |-> result]
             ELSE [dec |-> SELL(Min(sell_today, inv), "mpc_optimize"),
                   st |-> st2, lp |-> result]

\* the outcome when a failed solve liquidates instead of holding
MpcOutcome_sell_on_failure(inv, result, smoothing, st) ==
    IF result = NoResult THEN [dec |-> SELL(inv, "lp_failed"), st |-> st, lp |-> NoResult]
    ELSE LET sell_today == result.sell_solution[1]
             st2 == [st EXCEPT !.smoothed_shadow_price =
                        UpdateShadowPrice(smoothing, @, result.shadow_price)]
         IN  IF sell_today * 10 < MinSaleTenthsOfTon * UnitsPerTon
             THEN [dec |-> HOLD("mpc_hold"), st |-> st2, lp |-> result]
             ELSE [dec |-> SELL(Min(sell_today, inv), "mpc_optimize"),
                   st |-> st2, lp |-> result]

\* the result of a solve turned into the day's outcome
MpcOutcome(inv, result, smoothing, st) ==
    IF result = NoResult THEN [dec |-> HOLD("lp_failed"), st |-> st, lp |-> NoResult]
    ELSE LET sell_today == result.sell_solution[1]
             st2 == [st EXCEPT !.smoothed_shadow_price =
                        UpdateShadowPrice(smoothing, @, result.shadow_price)]
         IN  IF sell_today * 10 < MinSaleTenthsOfTon * UnitsPerTon
             THEN [dec |-> HOLD("mpc_hold"), st |-> st2, lp |-> result]
             ELSE [dec |-> SELL(Min(sell_today, inv), "mpc_optimize"),
                   st |-> st2, lp |-> result]

\* RollingHorizonMPC.decide
RollingHorizonMPC_decide(d, inv, current_price, hist, pred, smoothing, solver_succeeds, st) ==
    IF inv <= 0 THEN {Out(HOLD("no_inventory"), st)}
    ELSE IF pred = NoPredictions \/ NPaths(pred) = 0 THEN {Out(HOLD("no_predictions"), st)}
    ELSE LET window_len == Min(horizon_days, NHorizons(pred))
         IN  IF window_len <= 0 THEN {Out(SELL(inv, "no_forecast_horizon"), st)}
             ELSE {MpcOutcome(inv, result, smoothing, st) :
                      result \in _solve_window_lp(inv,
                                     future_prices_per_ton(pred, window_len),
                                     [t \in 1..window_len |-> 0],
                                     smoothing, st.smoothed_shadow_price,
                                     solver_succeeds)}

(***************************************************************************)
(* The ten policies behind one decide().                                   *)
(***************************************************************************)
RuleBased == {"ImmediateSale", "EqualBatch", "PriceThreshold", "MovingAverage"}

MatchedPair == {"PriceThresholdPredictive", "MovingAveragePredictive"}

StandAlone == {"ExpectedValue", "Consensus", "RiskAdjusted"}

Strategies == RuleBased \cup MatchedPair \cup StandAlone \cup {"RollingHorizonMPC"}

WithCooldown == (Strategies \ {"ImmediateSale", "EqualBatch", "RollingHorizonMPC"})

decide(name, d, inv, current_price, hist, pred, smoothing, solver_succeeds, st) ==
    CASE name = "ImmediateSale" -> ImmediateSale_decide(d, inv, current_price, hist, st)
      [] name = "EqualBatch" -> EqualBatch_decide(d, inv, current_price, hist, st)
      [] name = "PriceThreshold" -> PriceThreshold_decide(d, inv, current_price, hist, st)
      [] name = "MovingAverage" -> MovingAverage_decide(d, inv, current_price, hist, st)
      [] name = "PriceThresholdPredictive" ->
             PriceThresholdPredictive_decide(d, inv, current_price, hist, pred, st)
      [] name = "MovingAveragePredictive" ->
             MovingAveragePredictive_decide(d, inv, current_price, hist, pred, st)
      [] name = "ExpectedValue" -> ExpectedValue_decide(d, inv, current_price, hist, pred, st)
      [] name = "Consensus" -> Consensus_decide(d, inv, current_price, hist, pred, st)
      [] name = "RiskAdjusted" -> RiskAdjusted_decide(d, inv, current_price, hist, pred, st)
      [] name = "RollingHorizonMPC" ->
             RollingHorizonMPC_decide(d, inv, current_price, hist, pred, smoothing,
                                      solver_succeeds, st)

(***************************************************************************)
(* Inputs: daily prices (cents/lb) and forecast ensembles of two paths.    *)
(***************************************************************************)
Prices == {100, 120}

\* a path that ends at end_price after moving by step a day
Path(end_price, step) == [h \in 1..horizon_days |-> end_price - step * (horizon_days - h)]

Ensemble(lo, hi, step) == [present |-> TRUE, paths |-> << Path(lo, step), Path(hi, step) >>]

RisingTight == Ensemble(128, 132, 4)
FallingTight == Ensemble(88, 92, -4)
AtHighCutoff == Ensemble(95, 105, 0)
BelowHighCutoff == Ensemble(96, 104, 0)
AtMediumCutoff == Ensemble(85, 115, 0)
BelowMediumCutoff == Ensemble(86, 114, 0)
MaxUncertainty == Ensemble(0, 200, 0)
GentlyRising == Ensemble(104, 112, 4)
SteeplyRising == Ensemble(110, 130, 20)
Empty == [present |-> TRUE, paths |-> << >>]

Ensembles == {RisingTight, FallingTight, AtHighCutoff, BelowHighCutoff,
              AtMediumCutoff, BelowMediumCutoff}

\* the ensembles of a backtest run
RunEnsembles == {RisingTight, FallingTight, AtHighCutoff, AtMediumCutoff}

\* the ensembles of a backtest run under the MPC policy
MpcRunEnsembles == {RisingTight, AtHighCutoff}

\* what the engine can hand to a policy: the stand-alone policies test only
\* "predictions is None" (the median of an empty column is not a number), the
\* others also the size
EnsemblesFor(name, forecasts) ==
    IF name \in RuleBased \/ ~forecasts THEN {NoPredictions}
    ELSE IF name \in StandAlone THEN RunEnsembles \cup {NoPredictions}
    ELSE IF name \in MatchedPair THEN RunEnsembles \cup {NoPredictions, Empty}
    ELSE MpcRunEnsembles \cup {NoPredictions, Empty}

\* the prices a policy reads: tail(ma_period + 1), prices[-(period + 1):]
HistLen == Max(period, ma_period) + 1

PolicyState == [last_sale_day |-> last_sale_day,
                days_since_last_sale |-> days_since_last_sale,
                smoothed_shadow_price |-> smoothed_shadow_price]

(***************************************************************************)
(* The backtest run: one Step per simulated day.                           *)
(***************************************************************************)
\* the days of the last two unforced SELLs
NoteSell(days, d, dec) ==
    IF dec.action = "SELL" /\ ~IsForced(dec) THEN LastN(Append(days, d), 2) ELSE days

Init ==
    /\ strategy \in Strategies
    /\ has_forecasts \in (IF strategy \in RuleBased THEN {FALSE} ELSE BOOLEAN)
    /\ day = harvest_start
    /\ inventory = 0
    /\ total_harvested = 0
    /\ total_sold = 0
    /\ price_history = << >>
    /\ predictions = NoPredictions
    /\ last_sale_day = 0
    /\ days_since_last_sale = sale_frequency_days
    /\ shadow_price_smoothing \in
           (IF strategy = "RollingHorizonMPC" THEN {NoValue, shadow_alpha} ELSE {NoValue})
    /\ smoothed_shadow_price = NoValue
    /\ solver_ok = TRUE
    /\ lp_result = NoResult
    /\ lp_myopic = NoResult
    /\ prev_plan = NoResult
    /\ decision = NoDecision
    /\ inv_before = 0
    /\ sell_days = << >>
    /\ base_last_sale_day = 0
    /\ base_decision = NoDecision
    /\ OtherUnused

\* BacktestEngine: harvest inflow, forced liquidation, else the policy's
\* decision; then the sale is taken out of the inventory
Step ==
    /\ day < MaxDay
    /\ LET inv == accumulate(inventory, day)
           forced == Engine_force_liquidation_check(day, inv)
       IN  \E current_price \in Prices,
              pred \in (IF forced # NoDecision THEN {NoPredictions}
                        ELSE EnsemblesFor(strategy, has_forecasts)),
              ok \in (IF strategy = "RollingHorizonMPC" /\ forced = NoDecision
                      THEN BOOLEAN ELSE {TRUE}) :
             LET hist == LastN(Append(price_history, current_price), HistLen)
                 outcomes == IF forced # NoDecision THEN {Out(forced, PolicyState)}
                             ELSE decide(strategy, day, inv, current_price, hist, pred,
                                         shadow_price_smoothing, ok, PolicyState)
             IN  \E o \in outcomes :
                   /\ inventory' = inv - o.dec.amount
                   /\ total_harvested' = total_harvested + harvest_schedule(day)
                   /\ total_sold' = total_sold + o.dec.amount
                   /\ price_history' = hist
                   /\ predictions' = pred
                   /\ last_sale_day' = o.st.last_sale_day
                   /\ days_since_last_sale' = o.st.days_since_last_sale
                   /\ smoothed_shadow_price' = o.st.smoothed_shadow_price
                   /\ solver_ok' = ok
                   /\ lp_result' = o.lp
                   /\ prev_plan' = lp_result
                   /\ decision' = o.dec
                   /\ inv_before' = inv
                   /\ sell_days' = NoteSell(sell_days, day, o.dec)
    /\ day' = day + 1
    /\ UNCHANGED << strategy, has_forecasts, shadow_price_smoothing, lp_myopic,
                    base_last_sale_day, base_decision >>
    /\ UNCHANGED other_vars

Next == Step

Spec == Init /\ [][Next]_vars

(***************************************************************************)
(* Properties of the backtest run (specification Spec).                    *)
(***************************************************************************)
\* the harvest inflow of the days simulated so far
CumulativeHarvest(d) ==
    SumSeq([i \in 1..(d - harvest_start) |-> harvest_schedule(harvest_start + i - 1)])

\* the last simulated day
Today == day - 1

\* C1: on every day, under every policy and on forced-liquidation days too,
\* the cumulative harvest inflow equals the cumulative amount sold plus the
\* inventory left at the end of the day.
C1_MassBalance ==
    /\ total_harvested = CumulativeHarvest(day)
    /\ total_harvested = total_sold + inventory

\* a forced (gradual) sale after an earlier sale by the policy, stock left
C1_Witness ==
    /\ IsForced(decision) /\ decision.amount > 0
    /\ total_sold > decision.amount
    /\ inventory > 0
    /\ Today > harvest_start + harvest_days

\* C2: under every policy, with or without forecasts, the inventory is 0 at
\* the end of every day that is max_holding_days or more after harvest start.
C2_EmptyAtDeadline ==
    (day > harvest_start /\ Today - harvest_start >= max_holding_days) => inventory = 0

\* MPC in a run without any forecast: it held everything, the engine sold it
C2_Witness ==
    /\ strategy = "RollingHorizonMPC" /\ ~has_forecasts
    /\ Today - harvest_start >= max_holding_days
    /\ decision.reason = "force_liquidation_deadline" /\ decision.amount > 0
    /\ inventory = 0

\* C4: every Decision has 0 <= amount <= the inventory handed to decide(), so
\* the inventory after it is never negative; also when MPC re-solves from the
\* day-1 inventory of the previous solve.
C4_AmountWithinInventory ==
    /\ 0 <= decision.amount
    /\ decision.amount <= inv_before
    /\ inventory >= 0

\* MPC sells on a re-solve that starts from the previous plan's inventory
C4_Witness ==
    /\ strategy = "RollingHorizonMPC"
    /\ prev_plan # NoResult /\ prev_plan.inventory_solution[1] = inv_before
    /\ decision.reason = "mpc_optimize" /\ decision.amount > 0

\* C5: under a policy with a cooldown, two consecutive SELLs that are not
\* forced liquidations are at least cooldown_days apart.
C5_CooldownBetweenSells ==
    (strategy \in WithCooldown /\ Len(sell_days) = 2)
        => sell_days[2] - sell_days[1] >= cooldown_days

\* a forecast policy selling twice, exactly cooldown_days apart
C5_Witness ==
    /\ strategy = "PriceThresholdPredictive"
    /\ Len(sell_days) = 2 /\ sell_days[2] - sell_days[1] = cooldown_days
    /\ decision.action = "SELL" /\ decision.amount > 0 /\ ~IsForced(decision)

\* whether the day's decision came out of an LP solve
Solved(dec) == dec.reason \in {"mpc_optimize", "mpc_hold"}

\* C8: under MPC the amount sold is the first entry of that day's solve (or
\* nothing below the minimum sale), the solve is an optimum for that day's
\* inventory, window and smoothed shadow price, and nothing else is sold.
C8_FirstDayOnly ==
    [][(strategy = "RollingHorizonMPC" /\ Solved(decision')) =>
          LET window_len == Min(horizon_days, NHorizons(predictions'))
              first == lp_result'.sell_solution[1]
          IN  /\ lp_result' \in _solve_window_lp(inv_before',
                                    future_prices_per_ton(predictions', window_len),
                                    [t \in 1..window_len |-> 0],
                                    shadow_price_smoothing, smoothed_shadow_price, TRUE)
              /\ decision'.amount =
                     (IF first * 10 < MinSaleTenthsOfTon * UnitsPerTon THEN 0
                      ELSE Min(first, inv_before'))
              /\ inventory' = inv_before' - decision'.amount
              /\ total_sold' = total_sold + decision'.amount]_vars

\* yesterday's plan sold on its second day; today's solve holds, nothing sold
C8_Witness ==
    /\ strategy = "RollingHorizonMPC"
    /\ prev_plan # NoResult /\ prev_plan.sell_solution[2] > 0
    /\ decision.reason = "mpc_hold" /\ inventory = inv_before

\* C9: when the solve fails, MPC returns HOLD with amount 0, the inventory
\* and the smoothed shadow price stay as they were, and the run goes on.
C9_SolverFailureHolds ==
    [][(strategy = "RollingHorizonMPC" /\ ~solver_ok' /\ ~IsForced(decision')
          /\ inv_before' > 0 /\ Size(predictions') > 0) =>
          /\ decision'.action = "HOLD" /\ decision'.amount = 0
          /\ decision'.reason = "lp_failed"
          /\ inventory' = inv_before'
          /\ total_sold' = total_sold
          /\ smoothed_shadow_price' = smoothed_shadow_price
          /\ day' = day + 1]_vars

\* a failed solve after a successful one: shadow price kept, stock kept
C9_Witness ==
    /\ strategy = "RollingHorizonMPC"
    /\ ~solver_ok /\ decision.reason = "lp_failed"
    /\ smoothed_shadow_price # NoValue
    /\ inventory > 0 /\ inventory = inv_before

(***************************************************************************)
(* One call of decide() on inputs drawn from bounded sets (SpecDecide).    *)
(***************************************************************************)
Histories == [1..HistLen -> Prices]

Inventories == {0, harvest_volume * UnitsPerTon}

InitDecide ==
    /\ strategy \in Strategies
    /\ has_forecasts = (strategy \notin RuleBased)
    /\ day \in harvest_start..MaxDay
    /\ inventory \in Inventories
    /\ total_harvested = harvest_volume * UnitsPerTon
    /\ total_sold = total_harvested - inventory
    /\ price_history \in Histories
    /\ predictions \in (IF strategy \in RuleBased THEN {NoPredictions}
                        ELSE IF strategy \in StandAlone THEN Ensembles \cup {NoPredictions}
                        ELSE Ensembles \cup {NoPredictions, Empty})
    /\ last_sale_day \in {0, day}
    /\ days_since_last_sale = sale_frequency_days
    /\ shadow_price_smoothing \in
           (IF strategy = "RollingHorizonMPC" THEN {NoValue, shadow_alpha} ELSE {NoValue})
    /\ smoothed_shadow_price = NoValue
    /\ solver_ok = TRUE
    /\ lp_result = NoResult
    /\ lp_myopic = NoResult
    /\ prev_plan = NoResult
    /\ decision = NoDecision
    /\ inv_before = inventory
    /\ sell_days = << >>
    /\ base_last_sale_day = last_sale_day
    /\ base_decision = NoDecision
    /\ OtherUnused

\* the policy is asked once; the Decision and the policy's state are kept
Decide ==
    /\ decision = NoDecision
    /\ \E ok \in (IF strategy = "RollingHorizonMPC" THEN BOOLEAN ELSE {TRUE}) :
         \E o \in decide(strategy, day, inventory, price_history[Len(price_history)],
                         price_history, predictions, shadow_price_smoothing, ok,
                         PolicyState) :
            /\ decision' = o.dec
            /\ last_sale_day' = o.st.last_sale_day
            /\ days_since_last_sale' = o.st.days_since_last_sale
            /\ smoothed_shadow_price' = o.st.smoothed_shadow_price
            /\ lp_result' = o.lp
            /\ solver_ok' = ok
    /\ UNCHANGED << strategy, has_forecasts, day, inventory, total_harvested, total_sold,
                    price_history, predictions, shadow_price_smoothing, lp_myopic,
                    prev_plan, inv_before, sell_days, base_last_sale_day, base_decision >>
    /\ UNCHANGED other_vars

NextDecide == Decide

SpecDecide == InitDecide /\ [][NextDecide]_vars

\* C3: decide() of each of the ten policies, called with inventory > 0 on a
\* day max_holding_days or more after harvest start, returns SELL of the full
\* inventory, whatever the cooldown, the price signal, the ensemble and the LP.
C3_DecideForcesFullSale ==
    (decision # NoDecision /\ inv_before > 0 /\ day - harvest_start >= max_holding_days)
        => (decision.action = "SELL" /\ decision.amount = inv_before)

\* the same for the nine policies other than MPC
C3_NineOthersForceFullSale ==
    (strategy # "RollingHorizonMPC" /\ decision # NoDecision /\ inv_before > 0
        /\ day - harvest_start >= max_holding_days)
        => (decision.action = "SELL" /\ decision.amount = inv_before)

OverrideReasons ==
    {"OVERRIDE_hold_strong_upward", "OVERRIDE_small_hedge_mod_upward",
     "OVERRIDE_aggressive_strong_downward", "OVERRIDE_baseline_mod_downward",
     "OVERRIDE_neutral"}

TechnicalReasons ==
    {"overbought_strong_trend", "overbought", "strong_trend", "baseline",
     "strong_momentum", "overbought_strong"}

BlendReasons ==
    {"BLEND_reduce_sell_pred_upward", "BLEND_cautious_sell_pred_downward",
     "BLEND_hold_pred_agrees"}
        \cup {"BLEND_follow_baseline_" \o r : r \in TechnicalReasons}

BaselineReasons ==
    {"BASELINE_fallback", "BASELINE_below_threshold", "BASELINE_insufficient_history",
     "BASELINE_upward_crossover", "BASELINE_no_crossover"}
        \cup {"BASELINE_" \o r : r \in TechnicalReasons}

\* the tier a matched-pair decision was taken in, by its reason tag
TierOf(dec) ==
    IF dec.reason \in OverrideReasons THEN "HIGH"
    ELSE IF dec.reason \in BlendReasons THEN "MEDIUM"
    ELSE IF dec.reason \in BaselineReasons THEN "LOW"
    ELSE "NONE"

\* cv = c/100 exactly
CVEquals(cvsq, c) == cvsq.num * 10000 = c * c * cvsq.den

\* cv < c/100, stated on the ensemble
CVBelow(cvsq, c) == cvsq.num * 10000 < c * c * cvsq.den

\* C7: an ensemble whose CV is exactly the high cutoff is treated as MEDIUM,
\* one whose CV is exactly the medium cutoff as LOW, and a CV strictly below
\* a cutoff falls in the more confident tier.
C7_CutoffsAreExclusive ==
    (strategy \in MatchedPair /\ TierOf(decision) # "NONE" /\ Size(predictions) > 0) =>
        LET cv == calculate_prediction_confidence(predictions, horizon_days - 1)
        IN  /\ CVEquals(cv, high_confidence_cv) => TierOf(decision) = "MEDIUM"
            /\ CVEquals(cv, medium_confidence_cv) => TierOf(decision) = "LOW"
            /\ CVBelow(cv, high_confidence_cv) => TierOf(decision) = "HIGH"
            /\ (~CVBelow(cv, high_confidence_cv) /\ CVBelow(cv, medium_confidence_cv))
                   => TierOf(decision) = "MEDIUM"

\* the ensemble whose CV is exactly 0.05, decided in the blend tier
C7_Witness ==
    /\ strategy \in MatchedPair
    /\ predictions = AtHighCutoff
    /\ CVEquals(calculate_prediction_confidence(predictions, horizon_days - 1),
                high_confidence_cv)
    /\ TierOf(decision) = "MEDIUM"

(***************************************************************************)
(* A matched pair run side by side on the same days (SpecPair): the        *)
(* forecast-aware policy gets ensembles of low confidence, or none.        *)
(***************************************************************************)
\* CV 0.15 (the medium cutoff itself), CV 1.0, empty, absent
LowConfidence == {AtMediumCutoff, MaxUncertainty, Empty, NoPredictions}

\* the rule-based policy a forecast-aware policy is paired with
baseline_decide(name, d, inv, current_price, hist, st) ==
    IF name = "PriceThresholdPredictive"
    THEN PriceThreshold_decide(d, inv, current_price, hist, st)
    ELSE MovingAverage_decide(d, inv, current_price, hist, st)

InitPair ==
    /\ strategy \in MatchedPair
    /\ has_forecasts = TRUE
    /\ day = harvest_start
    /\ inventory = 0
    /\ total_harvested = 0
    /\ total_sold = 0
    /\ price_history = << >>
    /\ predictions = NoPredictions
    /\ last_sale_day = 0
    /\ days_since_last_sale = sale_frequency_days
    /\ shadow_price_smoothing = NoValue
    /\ smoothed_shadow_price = NoValue
    /\ solver_ok = TRUE
    /\ lp_result = NoResult
    /\ lp_myopic = NoResult
    /\ prev_plan = NoResult
    /\ decision = NoDecision
    /\ inv_before = 0
    /\ sell_days = << >>
    /\ base_last_sale_day = 0
    /\ base_decision = NoDecision
    /\ OtherUnused

\* one day: both policies decide on the same (day, inventory, price, history)
PairStep ==
    /\ day < MaxDay
    /\ \E current_price \in Prices, pred \in LowConfidence :
         LET inv == accumulate(inventory, day)
             hist == LastN(Append(price_history, current_price), HistLen)
         IN  \E o \in decide(strategy, day, inv, current_price, hist, pred,
                             NoValue, TRUE, PolicyState),
                b \in baseline_decide(strategy, day, inv, current_price, hist,
                         [PolicyState EXCEPT !.last_sale_day = base_last_sale_day]) :
               /\ inventory' = inv - o.dec.amount
               /\ total_harvested' = total_harvested + harvest_schedule(day)
               /\ total_sold' = total_sold + o.dec.amount
               /\ price_history' = hist
               /\ predictions' = pred
               /\ last_sale_day' = o.st.last_sale_day
               /\ decision' = o.dec
               /\ inv_before' = inv
               /\ sell_days' = NoteSell(sell_days, day, o.dec)
               /\ base_last_sale_day' = b.st.last_sale_day
               /\ base_decision' = b.dec
    /\ day' = day + 1
    /\ UNCHANGED << strategy, has_forecasts, days_since_last_sale, shadow_price_smoothing,
                    smoothed_shadow_price, solver_ok, lp_result, lp_myopic, prev_plan >>
    /\ UNCHANGED other_vars

NextPair == PairStep

SpecPair == InitPair /\ [][NextPair]_vars

Windows == {RisingTight, GentlyRising, SteeplyRising, FallingTight, AtHighCutoff}

Stocks == {(harvest_volume * UnitsPerTon * k) \div 10 : k \in 1..10}

\* the sell volume of a schedule over the window
TotalSold(sells) == SumSeq(sells)

\* the mean price rises from each horizon day to the next
Rising(pred) ==
    LET p == future_prices_per_ton(pred, NHorizons(pred))
    IN  \A t \in 1..(Len(p) - 1) : p[t] < p[t + 1]

InitLP ==
    /\ strategy = "RollingHorizonMPC"
    /\ has_forecasts = TRUE
    /\ day \in harvest_start..(max_holding_days - 1)
    /\ inventory \in Stocks
    /\ total_harvested = harvest_volume * UnitsPerTon
    /\ total_sold = total_harvested - inventory
    /\ price_history = << >>
    /\ predictions \in Windows
    /\ last_sale_day = 0
    /\ days_since_last_sale = sale_frequency_days
    /\ shadow_price_smoothing = NoValue
    /\ smoothed_shadow_price = NoValue
    /\ solver_ok = TRUE
    /\ lp_result = NoResult
    /\ lp_myopic = NoResult
    /\ prev_plan = NoResult
    /\ decision = NoDecision
    /\ inv_before = inventory
    /\ sell_days = << >>
    /\ base_last_sale_day = 0
    /\ base_decision = NoDecision
    /\ OtherUnused

\* the window's LP is solved as the program builds it, and once more with the
\* terminal-value coefficient left out
SolveWindow ==
    /\ lp_result = NoResult
    /\ LET window_len == Min(horizon_days, NHorizons(predictions))
           future_prices == future_prices_per_ton(predictions, window_len)
           future_harvest == [t \in 1..window_len |-> 0]
       IN  /\ lp_result' \in _solve_window_lp(inventory, future_prices, future_harvest,
                                               shadow_price_smoothing,
                                               smoothed_shadow_price, TRUE)
           /\ \E x \in Optima(inventory, future_prices, future_harvest, 0) :
                 lp_myopic' =
                     [sell_solution |-> x,
                      inventory_solution |->
                          [t \in 1..window_len |->
                              InvAfter(inventory, x, future_harvest, t)],
                      shadow_price |-> 0]
    /\ UNCHANGED << strategy, has_forecasts, day, inventory, total_harvested, total_sold,
                    price_history, predictions, last_sale_day, days_since_last_sale,
                    shadow_price_smoothing, smoothed_shadow_price, solver_ok, prev_plan,
                    decision, inv_before, sell_days, base_last_sale_day, base_decision >>
    /\ UNCHANGED other_vars

NextLP == SolveWindow

SpecLP == InitLP /\ [][NextLP]_vars

\* C10: for a rising window, the same stock and the same rates, the LP optimum
\* without the terminal value sells strictly more over the window than the LP
\* optimum with the terminal value (last price times the decay 0.95).
C10_TerminalValueSellsLess ==
    (lp_result # NoResult /\ Rising(predictions)) =>
        TotalSold(lp_myopic.sell_solution) > TotalSold(lp_result.sell_solution)

\* what the program's LP does on every rising window: with the decay 0.95
\* and the transaction cost 2 %, both optima sell the whole stock
C10_BothOptimaSellEverything ==
    (lp_result # NoResult /\ Rising(predictions)) =>
        /\ TotalSold(lp_result.sell_solution) = inventory
        /\ TotalSold(lp_myopic.sell_solution) = inventory

(***************************************************************************)
(* Building the harvest schedule from the configured windows (SpecHarvest).*)
(***************************************************************************)
\* no run is going on while the engine is being constructed
RunUnused ==
    /\ strategy = "ImmediateSale"
    /\ has_forecasts = FALSE
    /\ day = harvest_start
    /\ inventory = 0
    /\ total_harvested = 0
    /\ total_sold = 0
    /\ price_history = << >>
    /\ predictions = NoPredictions
    /\ last_sale_day = 0
    /\ days_since_last_sale = sale_frequency_days
    /\ shadow_price_smoothing = NoValue
    /\ smoothed_shadow_price = NoValue
    /\ solver_ok = TRUE
    /\ lp_result = NoResult
    /\ lp_myopic = NoResult
    /\ prev_plan = NoResult
    /\ decision = NoDecision
    /\ inv_before = 0
    /\ sell_days = << >>
    /\ base_last_sale_day = 0
    /\ base_decision = NoDecision

\* calculate_days(month_start, month_end): the days of year of a window
calculate_days(w) == w.first..w.last

\* the harvest windows of a configuration: non-empty, at most MaxWindowLen long
WindowsOfYear ==
    {w \in [first : 1..YearLen, last : 1..YearLen] :
        w.first <= w.last /\ w.last - w.first < MaxWindowLen}

\* one window, or two disjoint ones in calendar order
WindowConfigs ==
    {<<w>> : w \in WindowsOfYear}
        \cup {p \in {<<v, w>> : v \in WindowsOfYear, w \in WindowsOfYear} :
                  p[1].last < p[2].first}

\* the loop of _create_harvest_schedule from window i on: each window writes
\* harvest_volume / (its own length) on each of its days
RECURSIVE ScheduleFrom(_, _, _)
ScheduleFrom(windows, i, sched) ==
    IF i > Len(windows) THEN sched
    ELSE LET days == calculate_days(windows[i])
             increment == (harvest_volume * UnitsPerTon) \div Cardinality(days)
         IN  ScheduleFrom(windows, i + 1,
                 [d \in 1..YearLen |-> IF d \in days THEN increment ELSE sched[d]])

\* _create_harvest_schedule: a day the dict has no entry for has increment 0
_create_harvest_schedule(windows) ==
    ScheduleFrom(windows, 1, [d \in 1..YearLen |-> 0])

InitHarvest ==
    /\ RunUnused
    /\ harvest_windows \in WindowConfigs
    /\ built_schedule = << >>
    /\ runs = << >>
    /\ series = << >>
    /\ signal_net_benefit = [num |-> 0, den |-> 1]
    /\ signal_direction = "NONE"
    /\ analysis = NoAnalysis
    /\ indicators = NoIndicators
    /\ total_storage = 0
    /\ total_transaction = 0

BuildSchedule ==
    /\ built_schedule = << >>
    /\ built_schedule' = _create_harvest_schedule(harvest_windows)
    /\ UNCHANGED run_vars
    /\ UNCHANGED << harvest_windows, runs, series, signal_net_benefit, signal_direction,
           analysis,
           indicators, total_storage, total_transaction >>

NextHarvest == BuildSchedule

SpecHarvest == InitHarvest /\ [][NextHarvest]_vars

\* the days of year inside some window
InSomeWindow(windows) ==
    UNION {calculate_days(windows[i]) : i \in 1..Len(windows)}

\* C11: in the schedule built from one or more disjoint windows, the days of
\* one window all have the same increment, the days outside all windows have
\* increment zero, and the increments of the year sum to the annual harvest
\* volume, with one window and with more than one.
C11_ScheduleSumsToAnnualVolume ==
    built_schedule # << >> =>
        /\ \A i \in 1..Len(harvest_windows) :
              \A d, e \in calculate_days(harvest_windows[i]) :
                  built_schedule[d] = built_schedule[e]
        /\ \A d \in (1..YearLen) \ InSomeWindow(harvest_windows) : built_schedule[d] = 0
        /\ SumSeq(built_schedule) = harvest_volume * UnitsPerTon

\* what the schedule does: every window gets the whole annual volume, so the
\* year's increments sum to the volume times the number of windows
C11_EveryWindowGetsTheVolume ==
    built_schedule # << >> =>
        /\ \A i \in 1..Len(harvest_windows) :
              \A d, e \in calculate_days(harvest_windows[i]) :
                  built_schedule[d] = built_schedule[e]
        /\ \A d \in (1..YearLen) \ InSomeWindow(harvest_windows) : built_schedule[d] = 0
        /\ SumSeq(built_schedule) = Len(harvest_windows) * harvest_volume * UnitsPerTon

(***************************************************************************)
(* The coffee example of the Immediate Sale strategy, with the program's   *)
(* own parameters (SpecWeekly): 50 tons over 153 harvest days from day 1,  *)
(* min_batch_size 5.0, sale_frequency_days 7.  Inventory is counted in     *)
(* 1/153 ton here, so the daily increment 50/153 ton is 50 units.          *)
(***************************************************************************)
ExampleIncrement == harvest_volume

ExampleMinBatch == min_batch_size * ExampleHarvestDays

InitWeekly ==
    /\ strategy = "ImmediateSale"
    /\ has_forecasts = FALSE
    /\ day = 1
    /\ inventory = 0
    /\ total_harvested = 0
    /\ total_sold = 0
    /\ price_history = << >>
    /\ predictions = NoPredictions
    /\ last_sale_day = 0
    /\ days_since_last_sale = ExampleSaleFrequency
    /\ shadow_price_smoothing = NoValue
    /\ smoothed_shadow_price = NoValue
    /\ solver_ok = TRUE
    /\ lp_result = NoResult
    /\ lp_myopic = NoResult
    /\ prev_plan = NoResult
    /\ decision = NoDecision
    /\ inv_before = 0
    /\ sell_days = << >>
    /\ base_last_sale_day = 0
    /\ base_decision = NoDecision
    /\ OtherUnused

\* one day of the example run
WeeklyStep ==
    /\ day <= MaxExampleDay
    /\ LET inv == inventory + ExampleIncrement
           forced == Engine_force_liquidation_check_at(ExampleMaxHoldingDays,
                                                       ExampleGradualFrom, day, inv)
       IN  \E current_price \in Prices :
             LET outcomes ==
                     IF forced # NoDecision THEN {Out(forced, PolicyState)}
                     ELSE ImmediateSale_decide_at(ExampleMinBatch, ExampleSaleFrequency,
                                                  ExampleMaxHoldingDays, day, inv,
                                                  PolicyState)
             IN  \E o \in outcomes :
                   /\ inventory' = inv - o.dec.amount
                   /\ total_harvested' = total_harvested + ExampleIncrement
                   /\ total_sold' = total_sold + o.dec.amount
                   /\ price_history' = LastN(Append(price_history, current_price), HistLen)
                   /\ days_since_last_sale' = o.st.days_since_last_sale
                   /\ last_sale_day' = o.st.last_sale_day
                   /\ decision' = o.dec
                   /\ inv_before' = inv
                   /\ sell_days' = NoteSell(sell_days, day, o.dec)
    /\ day' = day + 1
    /\ UNCHANGED << strategy, has_forecasts, predictions, shadow_price_smoothing,
                    smoothed_shadow_price, solver_ok, lp_result, lp_myopic, prev_plan,
                    base_last_sale_day, base_decision >>
    /\ UNCHANGED other_vars

NextWeekly == WeeklyStep

SpecWeekly == InitWeekly /\ [][NextWeekly]_vars

\* C12: under Immediate Sale the first sale is on the first day on which the
\* inventory reaches min_batch_size, it sells the whole inventory and leaves
\* days_since_last_sale at 0; with min_batch_size 5.0, sale_frequency_days 7
\* and 50/153 tons a day from day 1 there is no sale on days 1..15 and the
\* first sale is on day 16.
C12_FirstSaleOnDay16 ==
    decision # NoDecision =>
        /\ sell_days = << >> => (decision.action = "HOLD" /\ inv_before < ExampleMinBatch)
        /\ sell_days = << Today >> =>
              /\ decision.action = "SELL" /\ decision.amount = inv_before
              /\ inv_before >= ExampleMinBatch
              /\ inventory = 0 /\ days_since_last_sale = 0
        /\ Today \in 1..15 => sell_days = << >>
        /\ Today >= 16 => (sell_days # << >> /\ sell_days[1] = 16)

\* the sale of day 16: all 16 x 50/153 tons
C12_Witness ==
    /\ Today = 16 /\ sell_days = << 16 >>
    /\ decision.action = "SELL" /\ decision.amount = 16 * ExampleIncrement
    /\ days_since_last_sale = 0

(***************************************************************************)
(* The rhythm of Immediate Sale in a backtest run (Spec).                  *)
(***************************************************************************)
\* the day of the last unforced sale before today (NoValue if none)
PreviousSaleDay ==
    LET earlier == SelectSeq(sell_days, LAMBDA x : x < Today)
    IN  IF earlier = << >> THEN NoValue ELSE earlier[Len(earlier)]

\* C13: Immediate Sale sells every sale_frequency_days: when the last unforced
\* sale was on day d and the inventory on day d + sale_frequency_days is at
\* least min_batch_size (and that day is not a forced one), the policy sells
\* on that day, and it sells the whole inventory.
C13_SellsEveryFrequencyDays ==
    ( /\ strategy = "ImmediateSale"
      /\ decision # NoDecision /\ ~IsForced(decision)
      /\ PreviousSaleDay # NoValue
      /\ Today = PreviousSaleDay + sale_frequency_days
      /\ inv_before >= min_batch_size * UnitsPerTon )
        => (decision.action = "SELL" /\ decision.amount = inv_before)

\* what decide does: the counter is 0 on the day after a sale and must reach
\* sale_frequency_days, so two sales are sale_frequency_days + 1 days apart
C13_SalesAreOneDayFurtherApart ==
    ( /\ strategy = "ImmediateSale"
      /\ decision.action = "SELL" /\ ~IsForced(decision)
      /\ PreviousSaleDay # NoValue )
        => Today >= PreviousSaleDay + sale_frequency_days + 1

(***************************************************************************)
(* One MPC decide() seen from the solver's answer on (SpecSolved).  The    *)
(* solver works in floating point: its sell[0] satisfies the balance       *)
(* constraint sell[0] + inv[0] = current_inventory only within its         *)
(* tolerance, so it can exceed the inventory by up to SolverSlack units.   *)
(***************************************************************************)
\* the answers linprog can give for an exact optimum
SolverAnswers(result) ==
    IF result = NoResult THEN {NoResult}
    ELSE {[result EXCEPT !.sell_solution[1] = @ + slack] : slack \in 0..SolverSlack}

InitSolved ==
    /\ strategy = "RollingHorizonMPC"
    /\ has_forecasts = TRUE
    /\ day \in harvest_start..(max_holding_days - 1)
    /\ inventory \in Stocks
    /\ total_harvested = harvest_volume * UnitsPerTon
    /\ total_sold = total_harvested - inventory
    /\ price_history = << >>
    /\ predictions \in Windows
    /\ last_sale_day = 0
    /\ days_since_last_sale = sale_frequency_days
    /\ shadow_price_smoothing = NoValue
    /\ smoothed_shadow_price = NoValue
    /\ solver_ok = TRUE
    /\ lp_result = NoResult
    /\ lp_myopic = NoResult
    /\ prev_plan = NoResult
    /\ decision = NoDecision
    /\ inv_before = inventory
    /\ sell_days = << >>
    /\ base_last_sale_day = 0
    /\ base_decision = NoDecision
    /\ OtherUnused

\* RollingHorizonMPC.decide from the solve on: the first entry of the
\* solver's answer becomes the day's decision
DecideOnAnswer ==
    /\ decision = NoDecision
    /\ LET window_len == Min(horizon_days, NHorizons(predictions))
       IN  \E exact \in _solve_window_lp(inventory,
                            future_prices_per_ton(predictions, window_len),
                            [t \in 1..window_len |-> 0],
                            shadow_price_smoothing, smoothed_shadow_price, TRUE) :
             \E answer \in SolverAnswers(exact) :
                LET o == MpcOutcome(inventory, answer, shadow_price_smoothing, PolicyState)
                IN  /\ lp_result' = answer
                    /\ decision' = o.dec
                    /\ smoothed_shadow_price' = o.st.smoothed_shadow_price
    /\ UNCHANGED << strategy, has_forecasts, day, inventory, total_harvested, total_sold,
                    price_history, predictions, last_sale_day, days_since_last_sale,
                    shadow_price_smoothing, solver_ok, lp_myopic, prev_plan,
                    inv_before, sell_days, base_last_sale_day, base_decision >>
    /\ UNCHANGED other_vars

NextSolved == DecideOnAnswer

SpecSolved == InitSolved /\ [][NextSolved]_vars

\* the solver's first-day amount is more than the inventory on hand
Oversell == lp_result # NoResult /\ lp_result.sell_solution[1] > inv_before

\* C14: when a policy comes up with a sell amount greater than the inventory,
\* the simulation halts in an error state: no SELL or HOLD is returned for
\* that day, and the amount is never silently reduced to the inventory.
C14_OversellHalts ==
    Oversell => decision.action \notin {"SELL", "HOLD"}

\* what decide does with such an amount: min(sell_today, inventory), returned
\* as an ordinary SELL
C14_OversellIsCapped ==
    Oversell => decision = SELL(inv_before, "mpc_optimize")

(***************************************************************************)
(* Two backtests whose days are interleaved (SpecTwoRuns).  Each run has   *)
(* its own engine and its own strategy instance; both read the same price  *)
(* series and the same ensembles.                                          *)
(***************************************************************************)
\* a run before its first day
NewRun(name) ==
    [strategy |-> name,
     day |-> harvest_start,
     inventory |-> 0,
     price_history |-> << >>,
     last_sale_day |-> 0,
     days_since_last_sale |-> sale_frequency_days,
     shadow_price_smoothing |-> IF name = "RollingHorizonMPC" THEN shadow_alpha ELSE NoValue,
     smoothed_shadow_price |-> NoValue,
     trade_log |-> << >>]

\* the attributes of the strategy instance a run reads; as if the instance
\* of the first run served every run (a plausible slip: one shared object)
StrategyState_of_first_run(all, i) ==
    [last_sale_day |-> all[1].last_sale_day,
     days_since_last_sale |-> all[1].days_since_last_sale,
     smoothed_shadow_price |-> all[1].smoothed_shadow_price]

\* the attributes of the strategy instance of run i (self.last_sale_day,
\* self.days_since_last_sale, self.smoothed_shadow_price)
StrategyState(all, i) ==
    [last_sale_day |-> all[i].last_sale_day,
     days_since_last_sale |-> all[i].days_since_last_sale,
     smoothed_shadow_price |-> all[i].smoothed_shadow_price]

\* one day of run i: the run after the day.  linprog is a function of its
\* arguments, so among equal optima the same one is returned every time.
RunDay(all, i, today) ==
    LET r == all[i]
        inv == accumulate(r.inventory, r.day)
        forced == Engine_force_liquidation_check(r.day, inv)
        hist == LastN(Append(r.price_history, today.price), HistLen)
        st == StrategyState(all, i)
        outcomes == IF forced # NoDecision THEN {Out(forced, st)}
                    ELSE decide(r.strategy, r.day, inv, today.price, hist,
                                today.predictions, r.shadow_price_smoothing, TRUE, st)
        o == CHOOSE x \in outcomes : TRUE
    IN  [r EXCEPT !.day = @ + 1,
                  !.inventory = inv - o.dec.amount,
                  !.price_history = hist,
                  !.last_sale_day = o.st.last_sale_day,
                  !.days_since_last_sale = o.st.days_since_last_sale,
                  !.smoothed_shadow_price = o.st.smoothed_shadow_price,
                  !.trade_log = Append(@, o.dec)]

\* the run of a strategy on its own, after k days of the series
RECURSIVE RunAlone(_, _, _)
RunAlone(name, days, k) ==
    IF k = 0 THEN NewRun(name)
    ELSE RunDay(<< RunAlone(name, days, k - 1) >>, 1, days[k])

\* the strategies of the two runs: one of each kind of strategy state
\* (day counter, last sale day, cooldown with forecasts, shadow price)
Partners == {"ImmediateSale", "EqualBatch", "PriceThresholdPredictive", "RollingHorizonMPC"}

InitTwoRuns ==
    /\ RunUnused
    /\ harvest_windows = << >>
    /\ built_schedule = << >>
    /\ signal_net_benefit = [num |-> 0, den |-> 1]
    /\ signal_direction = "NONE"
    /\ analysis = NoAnalysis
    /\ indicators = NoIndicators
    /\ total_storage = 0
    /\ total_transaction = 0
    /\ \E a \in Partners, b \in Partners : runs = << NewRun(a), NewRun(b) >>
    /\ \E forecast \in MpcRunEnsembles :
          series \in [1..TwoRunDays -> [price : Prices, predictions : {forecast}]]

\* the next day of one of the two runs
TwoRunsStep ==
    /\ \E i \in 1..2 :
          /\ runs[i].day - harvest_start < TwoRunDays
          /\ runs' = [runs EXCEPT ![i] = RunDay(runs, i, series[runs[i].day - harvest_start + 1])]
    /\ UNCHANGED run_vars
    /\ UNCHANGED << harvest_windows, built_schedule, series, signal_net_benefit, signal_direction,
           analysis,
           indicators, total_storage, total_transaction >>

NextTwoRuns == TwoRunsStep

SpecTwoRuns == InitTwoRuns /\ [][NextTwoRuns]_vars

TightAbove == Ensemble(99, 103, 0)
TightBelow == Ensemble(117, 121, 0)

\* ensembles of MEDIUM confidence (0.05 <= CV < 0.15) around 110, 101 and 119
WideRising == Ensemble(100, 120, 0)
WideAbove == Ensemble(94, 108, 0)
WideBelow == Ensemble(110, 128, 0)

TierEnsembles ==
    {RisingTight, FallingTight, BelowHighCutoff, TightAbove, TightBelow,
     AtHighCutoff, BelowMediumCutoff, WideRising, WideAbove, WideBelow,
     AtMediumCutoff}

InitTier ==
    /\ strategy \in MatchedPair
    /\ has_forecasts = TRUE
    /\ day \in harvest_start..(max_holding_days - 1)
    /\ inventory = harvest_volume * UnitsPerTon
    /\ total_harvested = harvest_volume * UnitsPerTon
    /\ total_sold = 0
    /\ price_history \in Histories
    /\ predictions \in TierEnsembles
    /\ last_sale_day \in {0, day}
    /\ days_since_last_sale = sale_frequency_days
    /\ shadow_price_smoothing = NoValue
    /\ smoothed_shadow_price = NoValue
    /\ solver_ok = TRUE
    /\ lp_result = NoResult
    /\ lp_myopic = NoResult
    /\ prev_plan = NoResult
    /\ decision = NoDecision
    /\ inv_before = inventory
    /\ sell_days = << >>
    /\ base_last_sale_day = last_sale_day
    /\ base_decision = NoDecision
    /\ OtherUnused

SpecTier == InitTier /\ [][NextDecide]_vars

\* the price decide() was called with
CurrentPrice == price_history[Len(price_history)]

\* the forecast signal of the call
Signal == _analyze_prediction_signal(CurrentPrice, price_history, predictions)

Upward == Signal.direction \in {"STRONG_UPWARD", "MODERATE_UPWARD"}

Downward == Signal.direction \in {"STRONG_DOWNWARD", "MODERATE_DOWNWARD"}

\* what the paired baseline policy returns for the state decide() was called in
BaselineDecision ==
    LET st == [PolicyState EXCEPT !.last_sale_day = base_last_sale_day]
    IN  (CHOOSE b \in baseline_decide(strategy, day, inventory, CurrentPrice,
                                      price_history, st) : TRUE).dec

\* the price signal of the paired baseline, as the blend reads it
BaselineTriggered ==
    IF strategy = "PriceThresholdPredictive"
    THEN PriceThreshold_get_baseline_action(CurrentPrice, price_history).triggered
    ELSE MovingAverage_get_baseline_action(CurrentPrice, price_history).triggered

\* C16: in the MEDIUM tier, when the baseline would sell and the forecast
\* points upward the policy sells half the baseline's fraction; when the
\* baseline would hold and the forecast points downward it sells the cautious
\* 15 %; in every other case its action and amount are the baseline policy's
\* for the same state, the max_days_without_sale fallback sale included.
C16_BlendFollowsBaseline ==
    (decision # NoDecision /\ TierOf(decision) = "MEDIUM") =>
        LET b == BaselineDecision
        IN  IF b.action = "SELL" /\ Upward
                THEN decision.action = "SELL" /\ 2 * decision.amount = b.amount
            ELSE IF b.action = "HOLD" /\ Downward
                THEN decision = SELL(Fraction(inventory, batch_pred_cautious),
                                     "BLEND_cautious_sell_pred_downward")
            ELSE decision.action = b.action /\ decision.amount = b.amount

\* what the blend does: it reads only the baseline's price signal; where that
\* signal and the baseline policy's decision agree, the three cases are as
\* stated, with the technical batch of the signal
C16_BlendFollowsPriceSignal ==
    (decision # NoDecision /\ TierOf(decision) = "MEDIUM") =>
        LET b == BaselineDecision
        IN  /\ (BaselineTriggered /\ Upward) => decision.reason = "BLEND_reduce_sell_pred_upward"
            /\ (~BaselineTriggered /\ Downward) =>
                  decision = SELL(Fraction(inventory, batch_pred_cautious),
                                  "BLEND_cautious_sell_pred_downward")
            /\ (~BaselineTriggered /\ ~Downward) => decision = HOLD("BLEND_hold_pred_agrees")
            /\ (BaselineTriggered /\ ~Upward /\ b.reason # "fallback") =>
                  (decision.action = b.action /\ decision.amount = b.amount)
            /\ (BaselineTriggered /\ Upward /\ b.reason # "fallback") =>
                  2 * decision.amount = b.amount

\* the sell fraction (per mille) the HIGH tier gives each direction
OverrideFraction(direction) ==
    IF direction = "STRONG_UPWARD" THEN 0
    ELSE IF direction = "MODERATE_UPWARD" THEN 150
    ELSE IF direction = "STRONG_DOWNWARD" THEN 400
    ELSE 250

\* the baseline policy would sell in the state of the call
BaselineWouldSell == BaselineDecision.action = "SELL" /\ BaselineDecision.amount > 0

\* C17: in the HIGH tier the sell fraction depends on the forecast direction
\* only: strong upward 0 %, moderate upward 15 %, strong downward 40 %,
\* moderate downward 25 %, neutral 25 %, whatever the baseline's price signal
\* and fallback say.
C17_OverrideByDirectionOnly ==
    (decision # NoDecision /\ TierOf(decision) = "HIGH") =>
        decision.amount = Fraction(inventory, OverrideFraction(Signal.direction))

\* a strong upward forecast of HIGH confidence: nothing is sold on a day on
\* which the baseline's fallback sale is due
C17_Witness ==
    /\ TierOf(decision) = "HIGH"
    /\ Signal.direction = "STRONG_UPWARD"
    /\ decision.amount = 0
    /\ day - base_last_sale_day >= max_days_without_sale
    /\ BaselineWouldSell

(***************************************************************************)
(* The direction classification on its own (SpecDirection): net benefits   *)
(* from -MaxNetBenefit to MaxNetBenefit tenths of a percent, in steps of   *)
(* 1/NetBenefitGrain.                                                      *)
(***************************************************************************)
NetBenefits ==
    {[num |-> n, den |-> NetBenefitGrain] :
        n \in (0 - MaxNetBenefit * NetBenefitGrain)..(MaxNetBenefit * NetBenefitGrain)}

InitDirection ==
    /\ RunUnused
    /\ harvest_windows = << >>
    /\ built_schedule = << >>
    /\ runs = << >>
    /\ series = << >>
    /\ signal_net_benefit \in NetBenefits
    /\ signal_direction = "NONE"
    /\ analysis = NoAnalysis
    /\ indicators = NoIndicators
    /\ total_storage = 0
    /\ total_transaction = 0

Classify ==
    /\ signal_direction = "NONE"
    /\ signal_direction' = classify_direction(signal_net_benefit)
    /\ UNCHANGED run_vars
    /\ UNCHANGED << harvest_windows, built_schedule, runs, series, signal_net_benefit, analysis,
           indicators, total_storage, total_transaction >>

NextDirection == Classify

SpecDirection == InitDirection /\ [][NextDirection]_vars

\* signal_net_benefit compared with a number of percent given in tenths
Above(tenths) == signal_net_benefit.num > tenths * signal_net_benefit.den

Below(tenths) == signal_net_benefit.num < tenths * signal_net_benefit.den

Exactly(tenths) == signal_net_benefit.num = tenths * signal_net_benefit.den

\* C18: every net_benefit_pct gets exactly one direction, by strict
\* comparisons in this order: > 2.0 strong upward, > 0.5 moderate upward,
\* < -1.0 strong downward, < -0.5 moderate downward, else neutral; so 2.0 and
\* -1.0 are moderate, 0.5 and -0.5 are neutral.
C18_DirectionByStrictComparisons ==
    signal_direction # "NONE" =>
        /\ signal_direction = ( IF Above(20) THEN "STRONG_UPWARD"
                         ELSE IF Above(5) THEN "MODERATE_UPWARD"
                         ELSE IF Below(-10) THEN "STRONG_DOWNWARD"
                         ELSE IF Below(-5) THEN "MODERATE_DOWNWARD"
                         ELSE "NEUTRAL" )
        /\ Exactly(20) => signal_direction = "MODERATE_UPWARD"
        /\ Exactly(-10) => signal_direction = "MODERATE_DOWNWARD"
        /\ (Exactly(5) \/ Exactly(-5)) => signal_direction = "NEUTRAL"

\* a net benefit of exactly 2.0 percent, classified moderate
C18_Witness == Exactly(20) /\ signal_direction = "MODERATE_UPWARD"

(***************************************************************************)
(* The indicator analysis of Threshold Breakout on its own (SpecBreakout): *)
(* price histories of HistLen days over four price levels.                 *)
(***************************************************************************)
BreakoutPrices == {90, 100, 110, 120}

InitBreakout ==
    /\ strategy = "PriceThreshold"
    /\ has_forecasts = FALSE
    /\ day = harvest_start
    /\ inventory = harvest_volume * UnitsPerTon
    /\ total_harvested = harvest_volume * UnitsPerTon
    /\ total_sold = 0
    /\ price_history \in [1..HistLen -> BreakoutPrices]
    /\ predictions = NoPredictions
    /\ last_sale_day = harvest_start
    /\ days_since_last_sale = sale_frequency_days
    /\ shadow_price_smoothing = NoValue
    /\ smoothed_shadow_price = NoValue
    /\ solver_ok = TRUE
    /\ lp_result = NoResult
    /\ lp_myopic = NoResult
    /\ prev_plan = NoResult
    /\ decision = NoDecision
    /\ inv_before = inventory
    /\ sell_days = << >>
    /\ base_last_sale_day = last_sale_day
    /\ base_decision = NoDecision
    /\ OtherUnused

\* batch_size, reason = self._analyze_historical(current_price, price_history)
AnalyzeHistorical ==
    /\ analysis = NoAnalysis
    /\ analysis' = PriceThreshold_analyze_historical(price_history)
    /\ UNCHANGED run_vars
    /\ UNCHANGED << harvest_windows, built_schedule, runs, series, signal_net_benefit,
                    signal_direction, indicators, total_storage, total_transaction >>

NextBreakout == AnalyzeHistorical

SpecBreakout == InitBreakout /\ [][NextBreakout]_vars

\* the three tests of the analysis on the history it was given
Overbought == FracGT(calculate_rsi(price_history), rsi_overbought)

StrongTrend == FracGT(calculate_adx(price_history), adx_strong)

BelowModerate == FracLT(calculate_rsi(price_history), rsi_moderate)

CrossoverReversalDecided ==
    /\ strategy = "MovingAverage"
    /\ decision # NoDecision
    /\ inv_before > 0
    /\ ~IsForced(decision)

\* the crossovers of the price history decide() was called with
UpwardCrossover ==
    upward_cross(price_history[Len(price_history)], price_history)

DownwardCrossover ==
    downward_cross(price_history[Len(price_history)], price_history)

\* days_since_sale of the call
DaysSinceSale == day - base_last_sale_day

\* the sale came from a crossover (not from the fallback)
CrossoverSale == decision.action = "SELL" /\ decision.reason # "fallback"

FallbackDue ==
    /\ strategy \in {"PriceThreshold", "MovingAverage"}
    /\ decision' # NoDecision /\ ~IsForced(decision')
    /\ inv_before' > 0
    /\ day - last_sale_day >= max_days_without_sale

\* the last two unforced sales are at most max_days_without_sale days apart
SalesCloseEnough ==
    Len(sell_days) = 2 => sell_days[2] - sell_days[1] <= max_days_without_sale

Flat(path_prices) ==
    [present |-> TRUE,
     paths |-> [k \in 1..Len(path_prices) |-> [h \in 1..horizon_days |-> path_prices[k]]]]

\* an ensemble of flat paths, the first `bullish` of them at price hi, the
\* others at price lo
Split(bullish, total, hi, lo) == Flat([k \in 1..total |-> IF k <= bullish THEN hi ELSE lo])

StandAloneEnsembles ==
    TierEnsembles \cup
    {Flat(<< 100, 101 >>), Flat(<< 100, 100 >>), Flat(<< 90, 130 >>), Flat(<< 97, 123 >>),
     Flat(<< 80, 128 >>), Flat(<< 80, 124 >>), Flat(<< 104, 104, 120 >>), Flat(<< 100, 110, 110 >>),
     Flat(<< 100, 110, 110, 110 >>), Flat(<< 100, 104, 110, 116 >>),
     Flat(<< 90, 110, 110, 110 >>), Flat(<< 110, 110, 110, 110 >>),
     Split(17, 20, 120, 100), Split(16, 20, 120, 100), Split(7, 10, 110, 100),
     Split(7, 10, 120, 100), Split(6, 10, 110, 100), Split(3, 10, 110, 100)}

InitStandAlone ==
    /\ strategy \in StandAlone
    /\ has_forecasts = TRUE
    /\ day \in harvest_start..(max_holding_days - 1)
    /\ inventory = harvest_volume * UnitsPerTon
    /\ total_harvested = harvest_volume * UnitsPerTon
    /\ total_sold = 0
    /\ price_history \in Histories
    /\ predictions \in StandAloneEnsembles \cup {NoPredictions}
    /\ last_sale_day \in harvest_start..day
    /\ days_since_last_sale = sale_frequency_days
    /\ shadow_price_smoothing = NoValue
    /\ smoothed_shadow_price = NoValue
    /\ solver_ok = TRUE
    /\ lp_result = NoResult
    /\ lp_myopic = NoResult
    /\ prev_plan = NoResult
    /\ decision = NoDecision
    /\ inv_before = inventory
    /\ sell_days = << >>
    /\ base_last_sale_day = last_sale_day
    /\ base_decision = NoDecision
    /\ OtherUnused

SpecStandAlone == InitStandAlone /\ [][NextDecide]_vars

\* the call reached the policy's analysis of the ensemble: inventory, no
\* forced liquidation, cooldown over, an ensemble supplied
Analysed(name) ==
    /\ strategy = name
    /\ decision # NoDecision /\ ~IsForced(decision)
    /\ inv_before > 0
    /\ day - base_last_sale_day >= cooldown_days
    /\ predictions # NoPredictions

\* the quantities the tables are keyed on, for the call's inputs
NetBenefit == _calculate_net_benefit_pct(price_history[Len(price_history)], predictions)

EnsembleCV == calculate_prediction_confidence(predictions, horizon_days - 1)

TrendADX == calculate_adx(price_history)

BullishPaths ==
    Cardinality({k \in 1..NPaths(predictions) :
        predictions.paths[k][NHorizons(predictions)] * 100
            > 103 * price_history[Len(price_history)]})

AllPaths == NPaths(predictions)

ReturnBelowMinimum ==
    Median2(Column(predictions, NHorizons(predictions))) * 100
        < 103 * 2 * price_history[Len(price_history)]

\* C24: Risk-Adjusted with an expected return below 3 % and a CV of 20 % or
\* more sells 35 % of the inventory (Scenario D: return 2 %, CV 22 %).
C24_LowReturnHighRiskSells35 ==
    (Analysed("RiskAdjusted") /\ ReturnBelowMinimum /\ ~CVBelow(EnsembleCV, 20))
        => decision.amount = (inv_before * 350) \div 1000

\* what the analysis does with an insufficient return: 35 % for a negative net
\* benefit, 25 % otherwise, whatever the CV
C24_LowReturnSellsByNetBenefit ==
    (Analysed("RiskAdjusted") /\ ReturnBelowMinimum)
        => decision.amount =
               (inv_before * (IF FracLT(EvalNetBenefit(price_history[Len(price_history)],
                                                       predictions), 0)
                              THEN 350 ELSE 250)) \div 1000

(***************************************************************************)
(* The stand-alone policies asked once without an ensemble (SpecStandAlone)*)
(***************************************************************************)
\* the call was made with predictions None, with inventory, and was not
\* answered by the forced liquidation
WithoutEnsemble ==
    /\ strategy \in StandAlone
    /\ decision # NoDecision /\ ~IsForced(decision)
    /\ inv_before > 0
    /\ predictions = NoPredictions

\* the default fraction of each policy, per mille
DefaultFraction ==
    IF strategy = "ExpectedValue" THEN 150 ELSE 200

\* C25: without an ensemble the three policies hold while fewer than
\* baseline_frequency (30) days have passed since the last sale, and sell
\* their default fraction (15 %, 20 %, 20 %) on a day on which that many have
\* passed; the sale restarts the count, so the sales recur.
C25_PeriodicDefaultSale ==
    WithoutEnsemble =>
        IF day - base_last_sale_day < baseline_frequency
        THEN /\ decision.action = "HOLD" /\ decision.amount = 0
             /\ last_sale_day = base_last_sale_day
        ELSE /\ decision.action = "SELL"
             /\ decision.amount = (inv_before * DefaultFraction) \div 1000
             /\ decision.amount > 0
             /\ last_sale_day = day

\* Ensemble Consensus sells its default 20 % exactly baseline_frequency days
\* after its last sale
C25_Witness ==
    /\ WithoutEnsemble
    /\ strategy = "Consensus"
    /\ base_last_sale_day > harvest_start
    /\ day - base_last_sale_day = baseline_frequency
    /\ decision.amount = (inv_before * 200) \div 1000

(***************************************************************************)
(* The forced liquidation as the policies apply it (SpecDecide) and as the *)
(* backtest run applies it (Spec).                                         *)
(***************************************************************************)
\* days since harvest start of the call, and the two tiers (345..364 and
\* >= 365 in the program)
DaysSinceHarvest == day - harvest_start

InGradualTier ==
    /\ DaysSinceHarvest >= max_holding_days - GradualWindow
    /\ DaysSinceHarvest < max_holding_days

AtDeadline == DaysSinceHarvest >= max_holding_days

\* C26: every policy's forced-liquidation check is the same two-tier rule: a
\* call with inventory in the gradual tier returns SELL of 5 % of the
\* inventory, a call at or after the deadline SELL of all of it.
C26_EveryPolicyAppliesTwoTiers ==
    (decision # NoDecision /\ inv_before > 0) =>
        /\ InGradualTier =>
               (decision.action = "SELL" /\ decision.amount = (inv_before * 50) \div 1000)
        /\ AtDeadline => (decision.action = "SELL" /\ decision.amount = inv_before)

\* what the policies' own check does: nothing in the gradual tier (the
\* decision is the one the policy takes on any other day), everything at the
\* deadline, under the nine policies that call it
C26_PoliciesApplyOneTier ==
    (decision # NoDecision /\ inv_before > 0 /\ strategy # "RollingHorizonMPC") =>
        /\ InGradualTier => ~IsForced(decision)
        /\ AtDeadline => decision = SELL(inv_before, "force_liquidation_max_days")

\* in the backtest run the engine's check answers first: on every day of the
\* gradual tier 5 % of the inventory is sold, at the deadline all of it,
\* under each of the ten policies
C26_RunAppliesTwoTiers ==
    [][inv_before' > 0 =>
          /\ InGradualTier => decision' = SELL((inv_before' * 50) \div 1000,
                                               "force_liquidation_gradual")
          /\ AtDeadline => decision' = SELL(inv_before', "force_liquidation_deadline")]_vars

(***************************************************************************)
(* A backtest over several harvest years: the day index runs on, the       *)
(* harvest schedule repeats by day of year.                                *)
(***************************************************************************)
\* a year of the run is one day longer than the holding limit (366 days of a
\* leap year against 365)
days_per_year == max_holding_days + 1

\* the harvest start of the harvest year that day d falls in
harvest_start_of_year(d) ==
    harvest_start + ((d - harvest_start) \div days_per_year) * days_per_year

\* harvest_schedule is keyed by day of year
harvest_schedule_of_year(d) == harvest_schedule(d - harvest_start_of_year(d) + harvest_start)

\* BacktestEngine over Years years: harvest inflow of the day of year, the
\* engine's forced-liquidation check on the day index, else the policy
YearsStep ==
    /\ day < harvest_start + Years * days_per_year
    /\ LET inv == inventory + harvest_schedule_of_year(day)
           forced == Engine_force_liquidation_check(day, inv)
       IN  \E current_price \in Prices,
              pred \in (IF forced # NoDecision THEN {NoPredictions}
                        ELSE EnsemblesFor(strategy, has_forecasts)),
              ok \in (IF strategy = "RollingHorizonMPC" /\ forced = NoDecision
                      THEN BOOLEAN ELSE {TRUE}) :
             LET hist == LastN(Append(price_history, current_price), HistLen)
                 outcomes == IF forced # NoDecision THEN {Out(forced, PolicyState)}
                             ELSE decide(strategy, day, inv, current_price, hist, pred,
                                         shadow_price_smoothing, ok, PolicyState)
             IN  \E o \in outcomes :
                   /\ inventory' = inv - o.dec.amount
                   /\ total_harvested' = total_harvested + harvest_schedule_of_year(day)
                   /\ total_sold' = total_sold + o.dec.amount
                   /\ price_history' = hist
                   /\ predictions' = pred
                   /\ last_sale_day' = o.st.last_sale_day
                   /\ days_since_last_sale' = o.st.days_since_last_sale
                   /\ smoothed_shadow_price' = o.st.smoothed_shadow_price
                   /\ solver_ok' = ok
                   /\ lp_result' = o.lp
                   /\ prev_plan' = lp_result
                   /\ decision' = o.dec
                   /\ inv_before' = inv
                   /\ sell_days' = NoteSell(sell_days, day, o.dec)
    /\ day' = day + 1
    /\ UNCHANGED << strategy, has_forecasts, shadow_price_smoothing, lp_myopic,
                    base_last_sale_day, base_decision >>
    /\ UNCHANGED other_vars

NextYears == YearsStep

SpecYears == Init /\ [][NextYears]_vars

\* the day just simulated lies in a later harvest year than the first
InLaterYear == Today >= harvest_start + days_per_year

\* days since the harvest start of the current harvest year
DaysSinceYearStart == Today - harvest_start_of_year(Today)

\* C27: the forced-liquidation deadline is measured from the harvest start
\* of the current harvest year: in a later year nothing is force-sold before
\* the tiers of that year begin, whatever the day index, and everything is
\* force-sold once max_holding_days have passed since that year's start.
C27_DeadlineFromYearStart ==
    (decision # NoDecision /\ inv_before > 0) =>
        /\ (InLaterYear /\ DaysSinceYearStart < max_holding_days - GradualWindow)
               => ~IsForced(decision)
        /\ DaysSinceYearStart >= max_holding_days
               => (decision.action = "SELL" /\ decision.amount = inv_before)

\* what the run does: from day index max_holding_days on, in every year,
\* whatever is on hand is force-sold on the day it arrives
C27_DeadlineFromFirstHarvestStart ==
    (decision # NoDecision /\ inv_before > 0 /\ Today - harvest_start >= max_holding_days)
        => /\ decision = SELL(inv_before, "force_liquidation_deadline")
           /\ inventory = 0

(***************************************************************************)
(* The smoothed shadow price over a backtest run (Spec).                    *)
(***************************************************************************)
\* the run uses shadow-price smoothing
SmoothingEnabled ==
    /\ strategy = "RollingHorizonMPC"
    /\ shadow_price_smoothing # NoValue

\* the prices of the window solved for an ensemble
SolvedPrices(pred) == future_prices_per_ton(pred, Min(horizon_days, NHorizons(pred)))

\* the optimal schedules of a day's LP under a terminal value per unit
OptimaUnder(inv, pred, terminal_val) ==
    Optima(inv, SolvedPrices(pred), [t \in 1..Len(SolvedPrices(pred)) |-> 0], terminal_val)

\* the exponential smoothing of the claim: alpha x new + (1 - alpha) x previous
Blend(new, previous) ==
    (shadow_alpha * new + (SmoothingScale - shadow_alpha) * previous) \div SmoothingScale

\* C28: with smoothing enabled the smoothed shadow price is unset at the
\* start of the run; a day without a successful solve leaves it unchanged; a
\* successful solve sets it to the solve's shadow price if it was unset and
\* to alpha x new + (1 - alpha) x previous otherwise, whatever the day's
\* decision (HOLD included); and the terminal coefficient of the day's solve
\* is the value from before that update (the decayed last price while unset).
C28_SmoothedShadowPrice ==
    [][SmoothingEnabled =>
          /\ day = harvest_start => smoothed_shadow_price = NoValue
          /\ lp_result' = NoResult => smoothed_shadow_price' = smoothed_shadow_price
          /\ lp_result' # NoResult =>
                /\ smoothed_shadow_price' =
                       IF smoothed_shadow_price = NoValue THEN lp_result'.shadow_price
                       ELSE Blend(lp_result'.shadow_price, smoothed_shadow_price)
                /\ lp_result'.sell_solution \in
                       OptimaUnder(inv_before', predictions',
                                   IF smoothed_shadow_price = NoValue
                                   THEN lp_result'.shadow_price
                                   ELSE smoothed_shadow_price)]_vars

\* a later successful solve whose decision is HOLD moved the smoothed value:
\* it differs from both the new shadow price and the value before
C28_Witness ==
    /\ SmoothingEnabled
    /\ decision = HOLD("mpc_hold")
    /\ lp_result # NoResult
    /\ prev_plan # NoResult
    /\ smoothed_shadow_price # NoValue
    /\ smoothed_shadow_price # lp_result.shadow_price
    /\ smoothed_shadow_price # prev_plan.shadow_price

\* the solve of the day just simulated had a previous smoothed value whose
\* optimum differs from the optimum under the updated value
C28_BeforeAndAfterDiffer ==
    /\ SmoothingEnabled
    /\ lp_result # NoResult
    /\ prev_plan # NoResult
    /\ lp_result.sell_solution \notin
           OptimaUnder(inv_before, predictions, smoothed_shadow_price)

(***************************************************************************)
(* The indicator functions on short and degenerate inputs (SpecIndicators). *)
(***************************************************************************)
\* price histories of every length up to the longest a policy reads
ShortHistories == UNION {[1..k -> Prices] : k \in 0..HistLen}

\* ensembles whose median on the last horizon day is 0 or negative
ZeroMedian == Flat(<< 0, 0 >>)
ZeroMedianSpread == Flat(<< 0 - 10, 0, 0, 20 >>)
NegativeMedian == Flat(<< 0 - 10, 0 - 10 >>)
NegativeMedianSpread == Flat(<< 0 - 30, 0 - 10, 20 >>)

IndicatorEnsembles ==
    Ensembles \cup {NoPredictions, Empty, MaxUncertainty, ZeroMedian, ZeroMedianSpread,
                    NegativeMedian, NegativeMedianSpread}

InitIndicators ==
    /\ RunUnused
    /\ harvest_windows = << >>
    /\ built_schedule = << >>
    /\ runs = << >>
    /\ series = << >>
    /\ signal_net_benefit = [num |-> 0, den |-> 1]
    /\ signal_direction = "NONE"
    /\ analysis = NoAnalysis
    /\ total_storage = 0
    /\ total_transaction = 0
    /\ indicators \in {[computed |-> FALSE, prices |-> h, predictions |-> e] :
                          h \in ShortHistories, e \in IndicatorEnsembles}

\* the indicator calls of the policies on one day's inputs; the matched-pair
\* policies call _analyze_prediction_signal only with a non-empty ensemble
ComputeIndicators ==
    /\ ~indicators.computed
    /\ LET prices == indicators.prices
           pred == indicators.predictions
       IN  indicators' =
               [computed |-> TRUE, prices |-> prices, predictions |-> pred,
                rsi |-> calculate_rsi(prices),
                adx |-> calculate_adx(prices),
                cv |-> calculate_prediction_confidence(pred, horizon_days - 1),
                pred_signal |->
                    IF pred # NoPredictions /\ Size(pred) > 0
                    THEN _analyze_prediction_signal(100, prices, pred)
                    ELSE [confidence |-> "NONE"]]
    /\ UNCHANGED run_vars
    /\ UNCHANGED << harvest_windows, built_schedule, runs, series, signal_net_benefit,
                    signal_direction, analysis, total_storage, total_transaction >>

NextIndicators == ComputeIndicators

SpecIndicators == InitIndicators /\ [][NextIndicators]_vars

\* a fraction equal to the whole number k
Is(q, k) == q.den > 0 /\ q.num = k * q.den

\* the inputs of the computed state
InsufficientHistory == Len(indicators.prices) < period + 1

NoLoss == ~InsufficientHistory /\ Losses(Diff(LastN(indicators.prices, period + 1))) = 0

EmptyEnsemble == indicators.predictions = NoPredictions \/ Size(indicators.predictions) = 0

MedianNotPositive ==
    /\ ~EmptyEnsemble
    /\ Median2(Column(indicators.predictions, horizon_days)) <= 0

\* C29: RSI is 50 with fewer than period + 1 prices and 100 when the average
\* loss is 0; ADX is 20 with fewer than period + 1 observations; the ensemble
\* CV is 1.0 when the ensemble is empty or its median is not positive, and
\* so is the CV computed inside the matched-pair policies' signal analysis.
C29_IndicatorDefaults ==
    indicators.computed =>
        /\ InsufficientHistory => (Is(indicators.rsi, 50) /\ Is(indicators.adx, 20))
        /\ NoLoss => Is(indicators.rsi, 100)
        /\ (EmptyEnsemble \/ MedianNotPositive) => Is(indicators.cv, 1)
        /\ MedianNotPositive => Is(indicators.pred_signal.cv, 1)

\* what the functions return: the defaults of the indicator library as the
\* claim has them, and in the signal analysis a quotient that is never 1.0
\* for a median that is not positive: infinite or undefined (confidence LOW)
\* for a median of 0, negative (confidence HIGH) for a negative median
C29_LibraryDefaultsOnly ==
    indicators.computed =>
        /\ InsufficientHistory => (Is(indicators.rsi, 50) /\ Is(indicators.adx, 20))
        /\ NoLoss => Is(indicators.rsi, 100)
        /\ (EmptyEnsemble \/ MedianNotPositive) => Is(indicators.cv, 1)
        /\ MedianNotPositive =>
              /\ ~Is(indicators.pred_signal.cv, 1)
              /\ indicators.pred_signal.confidence =
                     IF Median2(Column(indicators.predictions, horizon_days)) = 0
                     THEN "LOW" ELSE "HIGH"

(***************************************************************************)
(* The cost accounts of the backtest run (SpecCosts).                      *)
(***************************************************************************)
\* COMMODITY_CONFIGS: the engine's cost rates, per mille of the value
config_storage_cost_pm == 5
config_transaction_cost_pm == 10

\* price_per_ton = price * 20
price_per_ton(price) == price * CentsPerLbToDollarsPerTon

\* the day's costs with the storage charged on what is left after the sale
Engine_costs_after_sale(inv, dec, current_price) ==
    [storage |-> (inv - dec.amount) * price_per_ton(current_price) * config_storage_cost_pm,
     transaction |-> IF dec.action = "SELL"
                     THEN dec.amount * price_per_ton(current_price) * config_transaction_cost_pm
                     ELSE 0]

\* the day's costs (units x $/ton, per mille): daily_storage_cost on the
\* inventory of the day, transaction_cost on the sale value when selling
Engine_costs(inv, dec, current_price) ==
    [storage |-> inv * price_per_ton(current_price) * config_storage_cost_pm,
     transaction |-> IF dec.action = "SELL"
                     THEN dec.amount * price_per_ton(current_price) * config_transaction_cost_pm
                     ELSE 0]

InitCosts ==
    /\ strategy \in Strategies
    /\ has_forecasts \in (IF strategy \in RuleBased THEN {FALSE} ELSE BOOLEAN)
    /\ day = harvest_start
    /\ inventory = 0
    /\ total_harvested = 0
    /\ total_sold = 0
    /\ price_history = << >>
    /\ predictions = NoPredictions
    /\ last_sale_day = 0
    /\ days_since_last_sale = sale_frequency_days
    /\ shadow_price_smoothing = NoValue
    /\ smoothed_shadow_price = NoValue
    /\ solver_ok = TRUE
    /\ lp_result = NoResult
    /\ lp_myopic = NoResult
    /\ prev_plan = NoResult
    /\ decision = NoDecision
    /\ inv_before = 0
    /\ sell_days = << >>
    /\ base_last_sale_day = 0
    /\ base_decision = NoDecision
    /\ OtherUnused

\* BacktestEngine: one simulated day with its cost accounting
CostStep ==
    /\ day < harvest_start + CostDays
    /\ LET inv == accumulate(inventory, day)
           forced == Engine_force_liquidation_check(day, inv)
       IN  \E current_price \in Prices,
              pred \in (IF forced # NoDecision THEN {NoPredictions}
                        ELSE EnsemblesFor(strategy, has_forecasts)) :
             LET hist == LastN(Append(price_history, current_price), HistLen)
                 outcomes == IF forced # NoDecision THEN {Out(forced, PolicyState)}
                             ELSE decide(strategy, day, inv, current_price, hist, pred,
                                         shadow_price_smoothing, TRUE, PolicyState)
             IN  \E o \in outcomes :
                   LET costs == Engine_costs(inv, o.dec, current_price)
                   IN  /\ total_storage' = total_storage + costs.storage
                       /\ total_transaction' = total_transaction + costs.transaction
                       /\ inventory' = inv - o.dec.amount
                       /\ total_harvested' = total_harvested + harvest_schedule(day)
                       /\ total_sold' = total_sold + o.dec.amount
                       /\ price_history' = hist
                       /\ predictions' = pred
                       /\ last_sale_day' = o.st.last_sale_day
                       /\ days_since_last_sale' = o.st.days_since_last_sale
                       /\ smoothed_shadow_price' = o.st.smoothed_shadow_price
                       /\ lp_result' = o.lp
                       /\ prev_plan' = lp_result
                       /\ decision' = o.dec
                       /\ inv_before' = inv
                       /\ sell_days' = NoteSell(sell_days, day, o.dec)
    /\ day' = day + 1
    /\ UNCHANGED << strategy, has_forecasts, shadow_price_smoothing, lp_myopic, solver_ok,
                    base_last_sale_day, base_decision >>
    /\ UNCHANGED << harvest_windows, built_schedule, runs, series, signal_net_benefit,
                    signal_direction, analysis, indicators >>

NextCosts == CostStep

SpecCosts == InitCosts /\ [][NextCosts]_vars

\* the price of the day just simulated
PriceOfDay == price_history[Len(price_history)]

\* one day's storage accrual on an inventory at a price
Accrual(inv, price) == inv * price_per_ton(price) * config_storage_cost_pm

C30_ForcedDayReached ==
    /\ decision.reason = "force_liquidation_gradual"
    /\ total_storage > 0

(***************************************************************************)
(* The 0 % tiers of the forecast-aware policies (SpecDecide).              *)
(***************************************************************************)
\* the tiers whose sell fraction is 0: the HIGH override's strong upward
\* direction, Expected Value's confident hold, Consensus' two holds, the
\* low-risk hold of Risk-Adjusted
ZeroFractionReasons ==
    {"OVERRIDE_hold_strong_upward", "high_conf_hold", "very_strong_consensus_hold",
     "strong_consensus_high_conf_hold", "low_risk_hold"}

ZeroFractionSelected ==
    /\ strategy \in MatchedPair \cup StandAlone
    /\ decision.reason \in ZeroFractionReasons

\* C31: a forecast-aware policy that selects a 0 % sell fraction returns
\* HOLD with amount 0, never a SELL of amount 0, and leaves last_sale_day as
\* it was, so that the hold does not restart the cooldown.
C31_ZeroFractionIsHold ==
    ZeroFractionSelected =>
        /\ decision.action = "HOLD"
        /\ decision.amount = 0
        /\ last_sale_day = base_last_sale_day

\* what the policies return in those tiers: a SELL of amount 0 issued through
\* the same path as every sale, which notes the day as the day of the last
\* sale
C31_ZeroFractionIsEmptySale ==
    ZeroFractionSelected =>
        /\ decision.action = "SELL"
        /\ decision.amount = 0
        /\ last_sale_day = day

(***************************************************************************)
(* The LP optimum when one option is strictly best (Spec).                  *)
(***************************************************************************)
\* the net value of one unit sold on horizon day t: the revenue net of the
\* transaction cost, less the storage of the days it is held before
UnitValueOfSale(future_prices, t) ==
    future_prices[t] * (MpcScale - mpc_transaction_cost_pct)
        - SumSeq([s \in 1..(t - 1) |-> future_prices[s] * mpc_storage_cost_pct_per_day])

\* the net value of one unit carried through the window to the terminal value
UnitValueOfCarry(future_prices, terminal_val) ==
    terminal_val
        - SumSeq([s \in 1..Len(future_prices) |->
                     future_prices[s] * mpc_storage_cost_pct_per_day])

\* the options of a unit: sale on day 1..n_days, or carry (n_days + 1)
UnitValue(future_prices, terminal_val, option) ==
    IF option <= Len(future_prices) THEN UnitValueOfSale(future_prices, option)
    ELSE UnitValueOfCarry(future_prices, terminal_val)

StrictlyBest(future_prices, terminal_val, option) ==
    \A other \in (1..(Len(future_prices) + 1)) \ {option} :
        UnitValue(future_prices, terminal_val, option)
            > UnitValue(future_prices, terminal_val, other)

\* the schedule that puts the whole inventory on one option
AllTo(inv, n_days, option) == [t \in 1..n_days |-> IF t = option THEN inv ELSE 0]

InitBatch ==
    /\ strategy = "EqualBatch"
    /\ has_forecasts = FALSE
    /\ day = 0
    /\ inventory = harvest_volume * UnitsPerTon
    /\ total_harvested = harvest_volume * UnitsPerTon
    /\ total_sold = 0
    /\ price_history = << >>
    /\ predictions = NoPredictions
    /\ last_sale_day = 0
    /\ days_since_last_sale = sale_frequency_days
    /\ shadow_price_smoothing = NoValue
    /\ smoothed_shadow_price = NoValue
    /\ solver_ok = TRUE
    /\ lp_result = NoResult
    /\ lp_myopic = NoResult
    /\ prev_plan = NoResult
    /\ decision = NoDecision
    /\ inv_before = 0
    /\ sell_days = << >>
    /\ base_last_sale_day = 0
    /\ base_decision = NoDecision
    /\ OtherUnused

\* one day of the example run: no harvest inflow, the engine's check, else
\* the policy
BatchStep ==
    /\ day <= MaxBatchDay
    /\ LET inv == inventory
           forced == Engine_force_liquidation_check_at(ExampleMaxHoldingDays,
                                                       ExampleGradualFrom, day, inv)
       IN  \E current_price \in Prices :
             LET outcomes ==
                     IF forced # NoDecision /\ inv > 0 THEN {Out(forced, PolicyState)}
                     ELSE EqualBatch_decide_at(equal_batch_size, ExampleBatchFrequency,
                                               ExampleMaxHoldingDays, day, inv,
                                               PolicyState)
             IN  \E o \in outcomes :
                   /\ inventory' = inv - o.dec.amount
                   /\ total_sold' = total_sold + o.dec.amount
                   /\ price_history' = LastN(Append(price_history, current_price), HistLen)
                   /\ last_sale_day' = o.st.last_sale_day
                   /\ decision' = o.dec
                   /\ inv_before' = inv
                   /\ sell_days' = NoteSell(sell_days, day, o.dec)
    /\ day' = day + 1
    /\ UNCHANGED << strategy, has_forecasts, total_harvested, predictions,
                    days_since_last_sale, shadow_price_smoothing, smoothed_shadow_price,
                    solver_ok, lp_result, lp_myopic, prev_plan, base_last_sale_day,
                    base_decision >>
    /\ UNCHANGED other_vars

NextBatch == BatchStep

SpecBatch == InitBatch /\ [][NextBatch]_vars

\* the day's decision was a sale that was not forced
UnforcedSale == decision.action = "SELL" /\ ~IsForced(decision)

\* C33: under Equal Batch with a fraction below 1 a positive inventory is
\* still positive after a sale that was not forced, so the inventory reaches
\* 0 only through forced liquidation; two consecutive sales that were not
\* forced are at least frequency_days apart.
C33_BatchLeavesInventory ==
    /\ (UnforcedSale /\ inv_before > 0) => inventory > 0
    /\ (decision # NoDecision /\ inv_before > 0 /\ inventory = 0) => IsForced(decision)
    /\ Len(sell_days) = 2 => sell_days[2] - sell_days[1] >= ExampleBatchFrequency

\* the twelfth batch of the example was sold exactly 30 days after the one
\* before and left inventory; the run later reaches 0 by the forced sale
C33_Witness ==
    /\ UnforcedSale
    /\ decision.amount > 0
    /\ inventory > 0
    /\ Len(sell_days) = 2
    /\ sell_days[2] - sell_days[1] = ExampleBatchFrequency
    /\ total_sold > (harvest_volume * UnitsPerTon * 9) \div 10

C33_EmptiedByForce ==
    /\ inv_before > 0
    /\ inventory = 0
    /\ decision = SELL(inv_before, "force_liquidation_deadline")

\* ---------------------------------------------------------------------------
\* Threshold Breakout on a price history shorter than the moving-average
\* window: the threshold is taken from the current price itself

\* price histories with at least today's price and fewer than ma_period prices
BriefHistories == UNION {[1..k -> Prices] : k \in 1..(ma_period - 1)}

\* the policy is asked once, on any day of the season, with a brief history
InitBrief ==
    /\ strategy = "PriceThreshold"
    /\ has_forecasts = FALSE
    /\ day \in harvest_start..MaxDay
    /\ inventory \in Inventories
    /\ total_harvested = harvest_volume * UnitsPerTon
    /\ total_sold = total_harvested - inventory
    /\ price_history \in BriefHistories
    /\ predictions = NoPredictions
    /\ last_sale_day \in harvest_start..day
    /\ days_since_last_sale = sale_frequency_days
    /\ shadow_price_smoothing = NoValue
    /\ smoothed_shadow_price = NoValue
    /\ solver_ok = TRUE
    /\ lp_result = NoResult
    /\ lp_myopic = NoResult
    /\ prev_plan = NoResult
    /\ decision = NoDecision
    /\ inv_before = inventory
    /\ sell_days = << >>
    /\ base_last_sale_day = last_sale_day
    /\ base_decision = NoDecision
    /\ OtherUnused

SpecBrief == InitBrief /\ [][NextDecide]_vars

TodaysPrice == price_history[Len(price_history)]

\* C34: with fewer than ma_period prices in the history and a positive price,
\* the breakout signal of Threshold Breakout is not triggered, and a sale it
\* returns is the max_days_without_sale fallback or a forced liquidation
C34_NoBreakoutOnBriefHistory ==
    (Len(price_history) < ma_period /\ TodaysPrice > 0)
        => /\ ~signal_triggered(TodaysPrice, price_history)
           /\ (decision # NoDecision /\ decision.action = "SELL")
                  => \/ IsForced(decision)
                     \/ /\ decision.reason = "fallback"
                        /\ day - base_last_sale_day >= max_days_without_sale

\* the fallback sells on a brief history
C34_Witness ==
    /\ Len(price_history) < ma_period
    /\ TodaysPrice > 0
    /\ decision # NoDecision
    /\ decision.action = "SELL"
    /\ decision.reason = "fallback"
    /\ decision.amount > 0

\* out of the cooldown and before the fallback the policy holds, whatever the price
C34_HoldsOutOfCooldown ==
    /\ Len(price_history) < ma_period
    /\ inv_before > 0
    /\ decision = HOLD("below_threshold")
    /\ day - base_last_sale_day >= cooldown_days
    /\ TodaysPrice = 120

\* ---------------------------------------------------------------------------
\* The Expected-Value table called twice on one price history (one ADX), with
\* any current price and ensemble each time (SpecTwoCalls)

\* current prices one half percent apart, and ensembles whose median is the
\* third of them: all paths alike, moderately spread, widely spread
CallPrices == 199..203

CallEnsembles == {Flat(<< 201, 201 >>), Flat(<< 190, 212 >>), Flat(<< 150, 252 >>)}

InitTwoCalls ==
    /\ strategy = "ExpectedValue"
    /\ has_forecasts = TRUE
    /\ day = harvest_start
    /\ inventory = harvest_volume * UnitsPerTon
    /\ total_harvested = harvest_volume * UnitsPerTon
    /\ total_sold = 0
    /\ price_history \in Histories
    /\ predictions = NoPredictions
    /\ last_sale_day = harvest_start
    /\ days_since_last_sale = sale_frequency_days
    /\ shadow_price_smoothing = NoValue
    /\ smoothed_shadow_price = NoValue
    /\ solver_ok = TRUE
    /\ lp_result = NoResult
    /\ lp_myopic = NoResult
    /\ prev_plan = NoResult
    /\ decision = NoDecision
    /\ inv_before = inventory
    /\ sell_days = << >>
    /\ base_last_sale_day = last_sale_day
    /\ base_decision = NoDecision
    /\ OtherUnused

\* one call of _analyze_expected_value_pct; its inputs and its answer are kept
AnalyzeExpectedValue ==
    /\ Len(runs) < 2
    /\ \E current_price \in CallPrices, pred \in CallEnsembles :
         runs' = Append(runs,
                        [current_price |-> current_price, pred |-> pred,
                         batch_size |-> _analyze_expected_value_pct(
                                            current_price, price_history, pred).batch_size,
                         reason |-> _analyze_expected_value_pct(
                                        current_price, price_history, pred).reason])
    /\ UNCHANGED run_vars
    /\ UNCHANGED << harvest_windows, built_schedule, series, signal_net_benefit,
                    signal_direction, analysis, indicators, total_storage,
                    total_transaction >>

NextTwoCalls == AnalyzeExpectedValue

SpecTwoCalls == InitTwoCalls /\ [][NextTwoCalls]_vars

\* the net benefit and the confidence of the k-th call
NetBenefitOfCall(k) == _calculate_net_benefit_pct(runs[k].current_price, runs[k].pred)
CVOfCall(k) == calculate_prediction_confidence(runs[k].pred, horizon_days - 1)

\* the two calls have one CV (the fraction is kept in lowest terms)
SameCV == CVOfCall(1) = CVOfCall(2)

\* the net benefit of call j is below that of call k; the denominators are the
\* current prices times one common factor
NetBenefitBelow(j, k) ==
    NetBenefitOfCall(j).num * runs[k].current_price
        < NetBenefitOfCall(k).num * runs[j].current_price

\* C35: of two calls of the Expected-Value table with the same CV and the same
\* ADX, the one with the larger net benefit does not sell the larger fraction
C35_FractionFallsWithNetBenefit ==
    (/\ Len(runs) = 2
     /\ SameCV
     /\ ~NetBenefitBelow(2, 1))
        => runs[1].batch_size >= runs[2].batch_size

\* a larger net benefit at the same CV and ADX sells a strictly smaller fraction
C35_Witness ==
    /\ Len(runs) = 2
    /\ SameCV
    /\ NetBenefitBelow(1, 2)
    /\ runs[1].reason = "mild_negative"
    /\ runs[2].reason = "marginal_benefit"
    /\ runs[1].batch_size > runs[2].batch_size

\* from the largest fraction to holding everything
C35_FromCutLossesToHold ==
    /\ Len(runs) = 2
    /\ SameCV
    /\ NetBenefitBelow(1, 2)
    /\ runs[1].reason = "strong_negative"
    /\ runs[2].reason = "high_conf_hold"

\* the three confidence tiers of a positive net benefit follow the marginal tier
C35_MarginalThenLowConfidence ==
    /\ Len(runs) = 2
    /\ SameCV
    /\ NetBenefitBelow(1, 2)
    /\ runs[1].reason = "marginal_benefit"
    /\ runs[2].reason = "low_conf_hedge"

C35_MarginalThenMediumConfidence ==
    /\ Len(runs) = 2
    /\ SameCV
    /\ NetBenefitBelow(1, 2)
    /\ runs[1].reason = "marginal_benefit"
    /\ runs[2].reason = "med_conf_small_hedge"

\* ---------------------------------------------------------------------------
\* Forecasts that promise nothing above today's price (on SpecTier)

\* no horizon day's ensemble median exceeds the current price
NoMedianAbovePrice ==
    \A h \in 1..NHorizons(predictions) :
        Median2(Column(predictions, h)) <= 2 * CurrentPrice

\* C36: when no horizon day's ensemble median exceeds the (positive) current
\* price, the net benefit is strictly negative, the direction is neither
\* MODERATE_UPWARD nor STRONG_UPWARD, and the HIGH tier sells neither its 0 %
\* nor its 15 % fraction
C36_NoGainNoUpwardSignal ==
    (CurrentPrice > 0 /\ NoMedianAbovePrice)
        => /\ Signal.net_benefit_pct.num < 0
           /\ Signal.net_benefit_pct.den > 0
           /\ Signal.direction \notin {"MODERATE_UPWARD", "STRONG_UPWARD"}
           /\ (decision # NoDecision /\ TierOf(decision) = "HIGH")
                  => /\ decision.reason \notin {"OVERRIDE_hold_strong_upward",
                                                "OVERRIDE_small_hedge_mod_upward"}
                     /\ decision.amount \notin {Fraction(inventory, batch_pred_hold),
                                                Fraction(inventory, batch_pred_cautious)}

\* a HIGH-confidence ensemble whose medians equal today's price: the override
\* sells on the neutral direction
C36_Witness ==
    /\ NoMedianAbovePrice
    /\ \E h \in 1..NHorizons(predictions) :
           Median2(Column(predictions, h)) = 2 * CurrentPrice
    /\ TierOf(decision) = "HIGH"
    /\ Signal.direction = "NEUTRAL"
    /\ decision.reason = "OVERRIDE_neutral"
    /\ decision.amount = Fraction(inventory, batch_baseline)

\* medians below today's price: a downward override
C36_DownwardOverride ==
    /\ NoMedianAbovePrice
    /\ TierOf(decision) = "HIGH"
    /\ Signal.direction = "STRONG_DOWNWARD"
    /\ decision.amount = Fraction(inventory, batch_pred_aggressive)

====
